---- MODULE Spec2Model ----
(***************************************************************************)
(* A model of ase/calculators/vasp.py: the Vasp calculator's parameter     *)
(* registry and change gate, the species ordering built by initialize, and *)
(* the write / invoke / parse cycle of calculate.                          *)
(***************************************************************************)
EXTENDS Integers, Sequences, FiniteSets, TLC

(***************************************************************************)
(* Python values.  Every value is a tagged record, so that None, numbers,  *)
(* strings, booleans, lists and dictionaries can be compared with = as     *)
(* Python compares them with ==.  Floats are modelled by integers.         *)
(***************************************************************************)
None == [t |-> "None", v |-> 0]
I(n) == [t |-> "int", v |-> n]
S(s) == [t |-> "str", v |-> s]
B(b) == [t |-> "bool", v |-> b]
L(q) == [t |-> "list", v |-> q]
D(d) == [t |-> "dict", v |-> d]

\* Python truth value of a value (bool(v)).
Truthy(x) ==
    CASE x.t = "None" -> FALSE
      [] x.t = "int"  -> x.v # 0
      [] x.t = "str"  -> x.v # ""
      [] x.t = "bool" -> x.v
      [] x.t = "list" -> x.v # <<>>
      [] x.t = "dict" -> x.v # <<>>

\* str.lower() on the strings the model uses.
Lower(str) ==
    CASE str = "PW91" -> "pw91"
      [] str = "PBE"  -> "pbe"
      [] str = "LDA"  -> "lda"
      [] str = "GGA"  -> "gga"
      [] OTHER        -> str

(***************************************************************************)
(* The parameter registry: the modelled keys of each category.             *)
(***************************************************************************)
float_keys == {"encut", "kspacing", "potim"}
exp_keys == {"ediff"}
string_keys == {"gga"}
int_keys == {"ibrion", "nsw", "lorbit", "ichain", "iopt", "ispin"}
bool_keys == {"lhfcalc"}
list_keys ==
    {"rwigs", "magmom", "random_seed", "ldauu", "ldaul", "iband", "ferwe",
     "dipol"}
special_keys == {"lreal"}
dict_keys == {"ldau_luj"}
input_keys ==
    {"xc", "pp", "setups", "txt", "kpts", "gamma", "kpts_nintersections",
     "reciprocal"}

Categories ==
    <<"float_params", "exp_params", "string_params", "int_params",
      "bool_params", "list_params", "special_params", "dict_params",
      "input_params">>

\* The registered keys of a category.
KeysOf(cat) ==
    CASE cat = "float_params"   -> float_keys
      [] cat = "exp_params"     -> exp_keys
      [] cat = "string_params"  -> string_keys
      [] cat = "int_params"     -> int_keys
      [] cat = "bool_params"    -> bool_keys
      [] cat = "list_params"    -> list_keys
      [] cat = "special_params" -> special_keys
      [] cat = "dict_params"    -> dict_keys
      [] cat = "input_params"   -> input_keys

\* Vasp.xc_defaults, as ordered keyword lists.
xc_defaults ==
    [lda    |-> << <<"pp", S("LDA")>> >>,
     pw91   |-> << <<"pp", S("GGA")>>, <<"gga", S("91")>> >>,
     pbe    |-> << <<"pp", S("PBE")>>, <<"gga", S("PE")>> >>,
     pbesol |-> << <<"gga", S("PS")>> >>]

\* kwargs helpers: a keyword dictionary is a sequence of <<key, value>>
\* pairs with distinct keys, in iteration order.
KwKeys(kwargs) == {kwargs[i][1] : i \in DOMAIN kwargs}
KwGet(kwargs, key) ==
    IF key \in KwKeys(kwargs)
    THEN kwargs[CHOOSE i \in DOMAIN kwargs : kwargs[i][1] = key][2]
    ELSE None

\* Membership in a Python list.
InSeq(x, seq) == \E i \in DOMAIN seq : seq[i] = x

\* The category whose dictionary holds key (set tests them in this order;
\* the registry puts a key in one category only).
IsRegistered(key) == \E i \in DOMAIN Categories : key \in KeysOf(Categories[i])
CategoryOf(key) ==
    Categories[CHOOSE i \in DOMAIN Categories : key \in KeysOf(Categories[i])]

(***************************************************************************)
(* Vasp.set and Vasp.set_xc_params.  They work on the nine parameter       *)
(* dictionaries p and return the dictionaries as the call leaves them,     *)
(* with the exception it raised ("none" when it returned).                 *)
(***************************************************************************)
RECURSIVE SetLoop(_, _, _)
SetLoop(p, kwargs, i) ==
    IF i > Len(kwargs)
    THEN [params |-> p, err |-> "none"]
    ELSE LET key == kwargs[i][1]
             val == kwargs[i][2]
         IN  IF IsRegistered(key)
             THEN SetLoop([p EXCEPT ![CategoryOf(key)][key] = val], kwargs, i + 1)
             ELSE [params |-> p, err |-> "TypeError"]

\* set_xc_params: xc.lower() comes before the test for None.
set_xc_params(p, xc) ==
    IF xc.t # "str"
    THEN [params |-> p, err |-> "AttributeError"]
    ELSE IF Lower(xc.v) \notin DOMAIN xc_defaults
    THEN [params |-> p, err |-> "ValueError"]
    ELSE LET recipe == xc_defaults[Lower(xc.v)]
             r1 == IF "pp" \notin KwKeys(recipe)
                   THEN SetLoop(p, << <<"pp", S("PBE")>> >>, 1)
                   ELSE [params |-> p, err |-> "none"]
         IN  SetLoop(r1.params, recipe, 1)

set(p, kwargs) ==
    LET r1 == IF "xc" \in KwKeys(kwargs)
              THEN set_xc_params(p, KwGet(kwargs, "xc"))
              ELSE [params |-> p, err |-> "none"]
    IN  IF r1.err # "none" THEN r1 ELSE SetLoop(r1.params, kwargs, 1)

(***************************************************************************)
(* Vasp.__init__ (restart=None): every registered key unset, the non-INCAR *)
(* inputs at their defaults, the PW91 default, then set with the kwargs.  *)
(***************************************************************************)
DefaultInputParams ==
    [xc |-> None, pp |-> None, setups |-> None, txt |-> S("-"),
     kpts |-> L(<<1, 1, 1>>), gamma |-> B(FALSE),
     kpts_nintersections |-> None, reciprocal |-> B(FALSE)]

EmptyParams ==
    [float_params   |-> [k \in float_keys |-> None],
     exp_params     |-> [k \in exp_keys |-> None],
     string_params  |-> [k \in string_keys |-> None],
     int_params     |-> [k \in int_keys |-> None],
     bool_params    |-> [k \in bool_keys |-> None],
     list_params    |-> [k \in list_keys |-> None],
     special_params |-> [k \in special_keys |-> None],
     dict_params    |-> [k \in dict_keys |-> None],
     input_params   |-> DefaultInputParams]

VaspInit(kwargs) ==
    LET xc0 == IF Truthy(KwGet(kwargs, "xc"))
               THEN None
               ELSE IF ~(Truthy(KwGet(kwargs, "gga")) \/ Truthy(KwGet(kwargs, "pp")))
               THEN S("PW91")
               ELSE None
        p0 == [EmptyParams EXCEPT !.input_params.xc = xc0]
    IN  set(p0, kwargs)
(***************************************************************************)
(* Structures.  An Atoms object is a record: the species symbol and the    *)
(* initial magnetic moment of each atom, the positions (one number stands  *)
(* for the array), and whether the cell has a non-zero vector.  Atom       *)
(* indices are Python's, from 0: atom m is symbols[m + 1].                 *)
(***************************************************************************)
Unset == [t |-> "unset", v |-> 0]
A(atoms) == [t |-> "Atoms", v |-> atoms]
R(k) == [t |-> "run", v |-> k]

\* int(m) and str(m) on the keys of the setups dictionary.
IntStr == <<"0", "1", "2", "3", "4", "5", "6", "7", "8", "9">>
IsIntKey(key) ==
    \/ key.t = "int"
    \/ key.t = "str" /\ InSeq(key.v, IntStr)
IntOf(key) ==
    IF key.t = "int" THEN key.v
    ELSE (CHOOSE i \in DOMAIN IntStr : IntStr[i] = key.v) - 1
StrOf(m) == IF m \in 0..9 THEN S(IntStr[m + 1]) ELSE S("?")

\* The setups value is None or D(entries), entries the dictionary's items
\* in iteration order: [k |-> key, v |-> string].
SetupsHas(setups, key) ==
    setups.t = "dict" /\ \E i \in DOMAIN setups.v : setups.v[i].k = key
SetupsGet(setups, key) ==
    setups.v[CHOOSE i \in DOMAIN setups.v : setups.v[i].k = key].v

\* The keys of setups that int() accepts, in ascending order instead of
\* iteration order.
AscendingSetups(setups) ==
    IF Truthy(setups)
    THEN LET ks == {IntOf(setups.v[i].k) :
                       i \in {j \in DOMAIN setups.v : IsIntKey(setups.v[j].k)}}
         IN  [i \in 1..Cardinality(ks) |->
                 CHOOSE x \in ks : Cardinality({y \in ks : y < x}) = i - 1]
    ELSE <<>>

\* initialize: the keys of setups that int() accepts, in iteration order.
special_setups(setups) ==
    IF Truthy(setups)
    THEN LET ks == SelectSeq(setups.v, LAMBDA e : IsIntKey(e.k))
         IN  [i \in DOMAIN ks |-> IntOf(ks[i].k)]
    ELSE <<>>

\* initialize: the species of the atoms that are not special, in order of
\* first appearance.
RECURSIVE SymbolsFrom(_, _, _, _)
SymbolsFrom(syms, special, m, acc) ==
    IF m >= Len(syms) THEN acc
    ELSE SymbolsFrom(syms, special, m + 1,
             IF InSeq(m, special) \/ InSeq(syms[m + 1], acc)
             THEN acc
             ELSE Append(acc, syms[m + 1]))
Symbols(syms, special) == SymbolsFrom(syms, special, 0, <<>>)

\* initialize: symbolcount[symbol].
SymbolCount(syms, special, symbol) ==
    Cardinality({m \in 0..(Len(syms) - 1) :
                    ~InSeq(m, special) /\ syms[m + 1] = symbol})

RECURSIVE Flatten(_)
Flatten(seqs) == IF seqs = <<>> THEN <<>> ELSE Head(seqs) \o Flatten(Tail(seqs))

\* A sorting list that keeps the atoms that are not special in the order of
\* the structure instead of grouping them by species.
UngroupedSort(syms, special) ==
    special \o SelectSeq([i \in 1..Len(syms) |-> i - 1],
                         LAMBDA m : ~InSeq(m, special))

\* initialize: the sorting list.
BuildSort(syms, special) ==
    LET symbols == Symbols(syms, special)
        group(symbol) ==
            SelectSeq([i \in 1..Len(syms) |-> i - 1],
                      LAMBDA m : ~InSeq(m, special) /\ syms[m + 1] = symbol)
    IN  special \o Flatten([i \in DOMAIN symbols |-> group(symbols[i])])

\* A Python list index: valid from -len to len - 1.
ValidIndex(i, len) == -len <= i /\ i < len
PyIndex(i, len) == IF i >= 0 THEN i ELSE i + len

\* initialize: resort = range(len(sort)); resort[sort[n]] = n for each n.
\* ok is FALSE when an assignment raises IndexError; list is resort as the
\* loop left it.
RECURSIVE ResortFrom(_, _, _)
ResortFrom(sort, resort, n) ==
    IF n >= Len(sort) THEN [ok |-> TRUE, list |-> resort]
    ELSE IF ~ValidIndex(sort[n + 1], Len(resort))
    THEN [ok |-> FALSE, list |-> resort]
    ELSE ResortFrom(sort,
             [resort EXCEPT ![PyIndex(sort[n + 1], Len(resort)) + 1] = n],
             n + 1)
\* A resort list left as range(len(sort)).
RangeResort(sort) == [ok |-> TRUE, list |-> [i \in 1..Len(sort) |-> i - 1]]
BuildResort(sort) == ResortFrom(sort, [i \in 1..Len(sort) |-> i - 1], 0)

\* A count that takes the overridden atoms into the count of their species.
CountOverridden(syms, special) ==
    [i \in DOMAIN special |-> <<syms[PyIndex(special[i], Len(syms)) + 1], 1>>]
    \o [i \in DOMAIN Symbols(syms, special) |->
           <<Symbols(syms, special)[i],
             SymbolCount(syms, <<>>, Symbols(syms, special)[i])>>]
\* initialize: symbol_count, a list of <<symbol, count>>.
BuildSymbolCount(syms, special) ==
    LET symbols == Symbols(syms, special)
    IN  [i \in DOMAIN special |-> <<syms[PyIndex(special[i], Len(syms)) + 1], 1>>]
        \o [i \in DOMAIN symbols |->
               <<symbols[i], SymbolCount(syms, special, symbols[i])>>]
(***************************************************************************)
(* The world a call works on is a record s: the calculator's attributes    *)
(* (params, old_params, calc, results), the process environment (environ,  *)
(* ppfiles, files, sys_stderr), the number of launches of the external     *)
(* program so far, and the exception the call in progress has raised.      *)
(***************************************************************************)
Raise(s, e) == [s EXCEPT !.err = e]
RaiseMsg(s, e, msg, arg) == [s EXCEPT !.err = e, !.errmsg = msg, !.errarg = arg]
\* A world whose exception is never noticed.
NeverFailed(s) == FALSE
Failed(s) == s.err # "none"

\* initialize: the folder of the pseudopotential set pp.
PPFolder(pp) ==
    CASE Lower(pp) = "lda"  -> "potpaw"
      [] Lower(pp) = "pw91" -> "potpaw_GGA"
      [] Lower(pp) = "pbe"  -> "potpaw_PBE"
      [] OTHER              -> pp

\* A pseudopotential file is <<root, folder, directory, extension>>, the
\* extension "" for POTCAR and ".Z" for POTCAR.Z.  The first root of pppaths
\* holding either, the plain file first; <<>> when no root holds one.
FindPotcar(pppaths, ppfiles, folder, dir) ==
    LET has(r, ext) == <<r, folder, dir, ext>> \in ppfiles
        hits == SelectSeq(pppaths, LAMBDA r : has(r, "") \/ has(r, ".Z"))
    IN  IF hits = <<>> THEN <<>>
        ELSE IF has(hits[1], "") THEN <<hits[1], folder, dir, "">>
        ELSE <<hits[1], folder, dir, ".Z">>

\* initialize: the pseudopotential requests, the special setups first and
\* then the species; each is [err, name, path], err "none" when the file
\* was found, name the species the error message gives.
PotcarRequests(s, syms, special) ==
    LET p == s.params.input_params
        symbols == Symbols(syms, special)
        folder == PPFolder(p.pp.v)
        pppaths == IF s.environ.VASP_PP_PATH.t = "list"
                   THEN s.environ.VASP_PP_PATH.v ELSE <<>>
        \* the loop variable symbol, as the loops before left it
        leftover == IF symbols # <<>> THEN symbols[Len(symbols)]
                    ELSE syms[Len(syms)]
        find(dir, name) ==
            LET f == FindPotcar(pppaths, s.ppfiles, folder, dir)
            IN  IF f = <<>>
                THEN [err |-> "RuntimeError", name |-> name, path |-> <<>>]
                ELSE [err |-> "none", name |-> name, path |-> f]
        forSpecial(m) ==
            IF SetupsHas(p.setups, I(m))
            THEN find(SetupsGet(p.setups, I(m)), leftover)
            ELSE IF SetupsHas(p.setups, StrOf(m))
            THEN find(SetupsGet(p.setups, StrOf(m)), leftover)
            ELSE [err |-> "Exception", name |-> leftover, path |-> <<>>]
        forSymbol(symbol) ==
            IF SetupsHas(p.setups, S(symbol))
            THEN find(symbol \o SetupsGet(p.setups, S(symbol)), symbol)
            ELSE find(symbol, symbol)
    IN  [i \in DOMAIN special |-> forSpecial(special[i])]
        \o [i \in DOMAIN symbols |-> forSymbol(symbols[i])]

\* initialize: the functional folder guess when pp is not set.
GuessPP(gga) ==
    CASE gga = None    -> S("lda")
      [] gga = S("91") -> S("pw91")
      [] gga = S("PE") -> S("pbe")
      [] OTHER         -> None

\* initialize: the first request of reqs that found no file, Len(reqs) + 1
\* when every request found one.
FirstBad(reqs) ==
    IF \A i \in DOMAIN reqs : reqs[i].err = "none" THEN Len(reqs) + 1
    ELSE CHOOSE i \in DOMAIN reqs :
            /\ reqs[i].err # "none"
            /\ \A j \in 1..(i - 1) : reqs[j].err = "none"

initialize(s, atoms) ==
    LET syms == atoms.symbols
        \* ppp_list grows until a request finds no file; converged is reset
        \* at the very end
        potcars(s3, reqs, first) ==
            IF first <= Len(reqs)
            THEN RaiseMsg([s3 EXCEPT !.calc.ppp_list =
                                  L([i \in 1..(first - 1) |-> reqs[i].path])],
                          reqs[first].err,
                          IF reqs[first].err = "RuntimeError"
                          THEN "No pseudopotential for" ELSE "special setup index",
                          S(reqs[first].name))
            ELSE [s3 EXCEPT !.calc.ppp_list =
                                L([i \in DOMAIN reqs |-> reqs[i].path]),
                            !.calc.converged = None]
        requested(s3, reqs) == potcars(s3, reqs, FirstBad(reqs))
        \* resort[sort[n]] = n, then atoms[self.sort], then symbol_count
        sorted(s1, special, sort, rs) ==
            IF ~rs.ok \/ \E i \in DOMAIN sort : ~ValidIndex(sort[i], Len(syms))
            THEN Raise([s1 EXCEPT !.calc.sort = L(sort),
                                  !.calc.resort = L(rs.list)], "IndexError")
            ELSE requested([s1 EXCEPT !.calc.sort = L(sort),
                                      !.calc.resort = L(rs.list),
                                      !.calc.symbol_count =
                                          L(BuildSymbolCount(syms, special))],
                           PotcarRequests(s1, syms, special))
        ordered(s1, special, sort) == sorted(s1, special, sort, BuildResort(sort))
        grouped(s1, special) == ordered(s1, special, BuildSort(syms, special))
        guessed(pp) ==
            IF pp = None THEN Raise(s, "NotImplementedError")
            ELSE grouped([s EXCEPT !.params.input_params.pp = pp,
                                   !.calc.all_symbols = L(syms),
                                   !.calc.natoms = I(Len(syms)),
                                   !.calc.spinpol =
                                       B(\E i \in DOMAIN atoms.magmoms :
                                            atoms.magmoms[i] # 0)],
                         special_setups(s.params.input_params.setups))
    IN  guessed(IF s.params.input_params.pp = None
                THEN GuessPP(s.params.string_params["gga"])
                ELSE s.params.input_params.pp)
(***************************************************************************)
(* The change gate.                                                        *)
(***************************************************************************)
\* The eight categories set_results snapshots and calculation_required
\* compares (special_params is in neither list).
SnapshotCategories ==
    {"float_params", "exp_params", "string_params", "int_params",
     "input_params", "bool_params", "list_params", "dict_params"}

\* self.atoms != atoms, for self.atoms and atoms None or an Atoms object.
AtomsNe(a, b) == a # b

calculation_required(s, atoms, quantities) ==
    IF s.calc.positions = None THEN TRUE
    ELSE IF \/ AtomsNe(s.calc.atoms, atoms)
            \/ \E c \in SnapshotCategories : s.params[c] # s.old_params[c]
            \/ ~Truthy(s.calc.converged)
    THEN TRUE
    ELSE IF "magmom" \in quantities
    THEN s.results["magnetic_moment"] = Unset
    ELSE FALSE

(***************************************************************************)
(* The request serializer, as far as the files it leaves and the order it  *)
(* leaves them in: trace lists the file operations of the call.            *)
(***************************************************************************)
Wrote(s, name) ==
    [s EXCEPT !.files = @ \cup {name}, !.trace = Append(@, <<"write", name>>)]
ReadFile(s, name) == [s EXCEPT !.trace = Append(@, <<"read", name>>)]

CleanFiles ==
    {"CHG", "CHGCAR", "POSCAR", "INCAR", "CONTCAR", "DOSCAR", "EIGENVAL",
     "IBZKPT", "KPOINTS", "OSZICAR", "OUTCAR", "PCDAT", "POTCAR",
     "vasprun.xml", "WAVECAR", "XDATCAR", "PROCAR", "ase-sort.dat",
     "LOCPOT", "AECCAR0", "AECCAR1", "AECCAR2"}
clean(s) ==
    [s EXCEPT !.files = @ \ CleanFiles, !.incar = <<>>,
              !.trace = Append(@, <<"clean", "">>)]

\* str.upper() on the registered keys.
Upper(key) ==
    CASE key = "encut"       -> "ENCUT"
      [] key = "kspacing"    -> "KSPACING"
      [] key = "potim"       -> "POTIM"
      [] key = "ediff"       -> "EDIFF"
      [] key = "gga"         -> "GGA"
      [] key = "ibrion"      -> "IBRION"
      [] key = "nsw"         -> "NSW"
      [] key = "lorbit"      -> "LORBIT"
      [] key = "ichain"      -> "ICHAIN"
      [] key = "iopt"        -> "IOPT"
      [] key = "ispin"       -> "ISPIN"
      [] key = "lhfcalc"     -> "LHFCALC"
      [] key = "rwigs"       -> "RWIGS"
      [] key = "magmom"      -> "MAGMOM"
      [] key = "random_seed" -> "RANDOM_SEED"
      [] key = "ldauu"       -> "LDAUU"
      [] key = "ldaul"       -> "LDAUL"
      [] key = "iband"       -> "IBAND"
      [] key = "ferwe"       -> "FERWE"
      [] key = "dipol"       -> "DIPOL"
      [] key = "lreal"       -> "LREAL"
      [] key = "ldau_luj"    -> "LDAU_LUJ"
      [] OTHER               -> key

\* The decimal digits of a natural number, as a list of characters.
RECURSIVE Digits(_)
Digits(n) ==
    IF n < 10 THEN <<IntStr[n + 1]>>
    ELSE Append(Digits(n \div 10), IntStr[(n % 10) + 1])

\* '%.4f' % x, as a list of characters.  A magnetic moment is an integer
\* that counts ten-thousandths: 10000 is 1.0, -15000 is -1.5.
Fmt4Abs(a) ==
    Digits(a \div 10000) \o <<".">>
        \o [i \in 1..4 |-> IntStr[((a \div 10^(4 - i)) % 10) + 1]]
Fmt4(x) == IF x < 0 THEN <<"-">> \o Fmt4Abs(-x) ELSE Fmt4Abs(x)

\* write_incar: the list of [count, value] pairs of the moments val, a
\* pair for each run of equal neighbours (val is not empty).
RECURSIVE RunLengthFrom(_, _, _)
RunLengthFrom(val, list, n) ==
    IF n >= Len(val) THEN list
    ELSE RunLengthFrom(val,
             IF val[n + 1] = val[n]
             THEN [list EXCEPT ![Len(list)][1] = @ + 1]
             ELSE Append(list, <<1, val[n + 1]>>),
             n + 1)
\* Pairs that never merge equal neighbours.
SingleRuns(val) == [i \in DOMAIN val |-> <<1, val[i]>>]
RunLength(val) == RunLengthFrom(val, << <<1, val[1]>> >>, 1)

\* A line of INCAR: the keyword in front of ' = ' ("" when the line has
\* none), the format of its values and the values.  The values of a MAGMOM
\* line are its words '%i*%.4f', each a list of characters.
IncarLine(name, fmt, vals) == [name |-> name, fmt |-> fmt, vals |-> vals]
MagmomLine(val) ==
    IncarLine("MAGMOM", "%i*%.4f",
              [i \in DOMAIN RunLength(val) |->
                  Digits(RunLength(val)[i][1]) \o <<"*">>
                      \o Fmt4(RunLength(val)[i][2])])

\* The keys of a dictionary in an iteration order.
RECURSIVE SeqOf(_)
SeqOf(keys) ==
    IF keys = {} THEN <<>>
    ELSE <<CHOOSE x \in keys : TRUE>>
             \o SeqOf(keys \ {CHOOSE x \in keys : TRUE})
\* write_incar, one loop: the lines of the keys of d that are not None.
LinesFrom(ks, lines(_)) == Flatten([i \in DOMAIN ks |-> lines(ks[i])])
LinesOf(d, lines(_)) ==
    IF \A k \in DOMAIN d : d[k] = None THEN <<>>
    ELSE LinesFrom(SeqOf({k \in DOMAIN d : d[k] # None}), lines)

\* write_incar: the lines of an integer key; ichain > 0 adds IBRION and
\* POTIM, and IOPT when iopt is None.
IntLines(p, key) ==
    <<IncarLine(Upper(key), "%d", <<p.int_params[key].v>>)>>
    \o (IF key = "ichain" /\ p.int_params[key].v > 0
        THEN <<IncarLine("IBRION", "text", <<"3">>),
               IncarLine("POTIM", "text", <<"0.0">>)>>
             \o (IF p.int_params["iopt"] = None
                 THEN <<IncarLine("IOPT", "text", <<"1">>)>> ELSE <<>>)
        ELSE <<>>)

\* write_incar: the line of a list key; a key of none of the branches
\* leaves the line break alone.
ListLines(p, key) ==
    <<CASE key \in {"dipol", "eint", "ropt", "rwigs"} ->
              IncarLine(Upper(key), "%.4f", p.list_params[key].v)
        [] key \in {"ldauu", "ldauj"} /\ p.dict_params["ldau_luj"] = None ->
              IncarLine(Upper(key), "%.4f", p.list_params[key].v)
        [] key = "ldaul" /\ p.dict_params["ldau_luj"] = None ->
              IncarLine(Upper(key), "%d", p.list_params[key].v)
        [] key \in {"ferwe", "ferdo"} ->
              IncarLine(Upper(key), "%.1f", p.list_params[key].v)
        [] key \in {"iband", "kpuse"} ->
              IncarLine(Upper(key), "%i", p.list_params[key].v)
        [] key = "magmom" -> MagmomLine(p.list_params[key].v)
        [] OTHER -> IncarLine("", "blank", <<>>)>>

\* write_incar: the line of lreal, which has no line break when the value
\* is neither a string nor a boolean.
SpecialLines(p, key) ==
    <<CASE p.special_params[key].t = "str" ->
              IncarLine(Upper(key), "%s", <<p.special_params[key].v>>)
        [] p.special_params[key].t = "bool" ->
              IncarLine(Upper(key), "bool", <<p.special_params[key].v>>)
        [] OTHER -> IncarLine(Upper(key), "unterminated", <<>>)>>

\* write_incar: ldau_luj gives LDAUL, LDAUU and LDAUJ, a value for each
\* entry of symbol_count, the default for a species the dictionary lacks.
LujOf(val, symbol) ==
    IF \E i \in DOMAIN val.v : val.v[i].k = S(symbol)
    THEN val.v[CHOOSE i \in DOMAIN val.v : val.v[i].k = S(symbol)].v
    ELSE [L |-> -1, U |-> 0, J |-> 0]
DictLines(p, symbol_count) ==
    IF p.dict_params["ldau_luj"] = None THEN <<>>
    ELSE <<IncarLine("LDAUL", " %i",
               [i \in DOMAIN symbol_count |->
                   LujOf(p.dict_params["ldau_luj"], symbol_count[i][1]).L]),
           IncarLine("LDAUU", " %.3f",
               [i \in DOMAIN symbol_count |->
                   LujOf(p.dict_params["ldau_luj"], symbol_count[i][1]).U]),
           IncarLine("LDAUJ", " %.3f",
               [i \in DOMAIN symbol_count |->
                   LujOf(p.dict_params["ldau_luj"], symbol_count[i][1]).J])>>

\* write_incar: the moments of the structure in the order of sort, when
\* the structure has moments and no MAGMOM line was written.
DerivedLines(p, c, atoms) ==
    IF Truthy(c.spinpol) /\ p.list_params["magmom"] = None
    THEN (IF ~Truthy(p.int_params["ispin"])
          THEN <<IncarLine("ISPIN", "text", <<"2">>)>> ELSE <<>>)
         \o <<MagmomLine([i \in DOMAIN c.sort.v |->
                 atoms.magmoms[PyIndex(c.sort.v[i], Len(atoms.magmoms)) + 1]])>>
    ELSE <<>>

\* write_incar(atoms): the lines behind the header line, category by
\* category.
IncarLines(p, c, atoms) ==
    LinesOf(p.float_params,
            LAMBDA k : <<IncarLine(Upper(k), "%5.6f", <<p.float_params[k].v>>)>>)
    \o LinesOf(p.exp_params,
            LAMBDA k : <<IncarLine(Upper(k), "%5.2e", <<p.exp_params[k].v>>)>>)
    \o LinesOf(p.string_params,
            LAMBDA k : <<IncarLine(Upper(k), "%s", <<p.string_params[k].v>>)>>)
    \o LinesOf(p.int_params, LAMBDA k : IntLines(p, k))
    \o LinesOf(p.list_params, LAMBDA k : ListLines(p, k))
    \o LinesOf(p.bool_params,
            LAMBDA k : <<IncarLine(Upper(k), "bool", <<p.bool_params[k].v>>)>>)
    \o LinesOf(p.special_params, LAMBDA k : SpecialLines(p, k))
    \o DictLines(p, c.symbol_count.v)
    \o DerivedLines(p, c, atoms)

write_incar(s) ==
    Wrote([s EXCEPT !.incar = IncarLines(s.params, s.calc, s.arg.v)], "INCAR")
(***************************************************************************)
(* read_incar: the settings of the file INCAR, line by line.               *)
(***************************************************************************)
\* The registered key whose upper-case form is name; "" when there is none.
KeyOf(name) ==
    IF \E i \in DOMAIN Categories : \E k \in KeysOf(Categories[i]) : Upper(k) = name
    THEN CHOOSE k \in UNION {KeysOf(Categories[i]) : i \in DOMAIN Categories} :
            Upper(k) = name
    ELSE ""

\* float() and int() on a list of characters; a float counts
\* ten-thousandths.
DigitVal(c) == (CHOOSE i \in DOMAIN IntStr : IntStr[i] = c) - 1
RECURSIVE ParseNat(_, _)
ParseNat(chars, acc) ==
    IF chars = <<>> THEN acc
    ELSE ParseNat(Tail(chars), 10 * acc + DigitVal(Head(chars)))
DotOf(body) ==
    IF \E i \in DOMAIN body : body[i] = "."
    THEN CHOOSE i \in DOMAIN body : body[i] = "."
    ELSE Len(body) + 1
ParseAbs(body, dot) ==
    10000 * ParseNat(SubSeq(body, 1, dot - 1), 0)
    + ParseNat([j \in 1..4 |-> IF dot + j <= Len(body) THEN body[dot + j] ELSE "0"], 0)
ParseFloat(chars) ==
    IF chars[1] = "-" THEN -ParseAbs(Tail(chars), DotOf(Tail(chars)))
    ELSE ParseAbs(chars, DotOf(chars))

\* line.replace("*", " * ").split() on a word of a line.
RECURSIVE SplitStar(_, _, _)
SplitStar(chars, cur, acc) ==
    IF chars = <<>> THEN (IF cur = <<>> THEN acc ELSE Append(acc, cur))
    ELSE IF Head(chars) = "*"
    THEN SplitStar(Tail(chars), <<>>,
                   (IF cur = <<>> THEN acc ELSE Append(acc, cur)) \o << <<"*">> >>)
    ELSE SplitStar(Tail(chars), Append(cur, Head(chars)), acc)
MagmomData(words) ==
    Flatten([i \in DOMAIN words |-> SplitStar(words[i], <<>>, <<>>)])

\* read_incar: the moments of the data behind 'MAGMOM ='; a '*' takes the
\* number in front of it as the count of the number behind it.
RECURSIVE DecodeMagmom(_, _, _)
DecodeMagmom(data, i, list) ==
    IF i > Len(data) THEN list
    ELSE IF data[i] \in {<<"#">>, <<"!">>} THEN list
    ELSE IF data[i] = <<"*">>
    THEN DecodeMagmom(data, i + 2,
             SubSeq(list, 1, Len(list) - 1)
             \o [j \in 1..(list[Len(list)] \div 10000) |-> ParseFloat(data[i + 1])])
    ELSE DecodeMagmom(data, i + 1, Append(list, ParseFloat(data[i])))

\* The number a literal text of write_incar stands for.
TextVal(text) ==
    CASE text = "0.0" -> 0
      [] text = "1"   -> 1
      [] text = "2"   -> 2
      [] text = "3"   -> 3

\* read_incar: the value data[2] of a line stands for.
LineVal(line) ==
    CASE line.fmt = "text" -> I(TextVal(line.vals[1]))
      [] line.fmt = "bool" -> B(line.vals[1])
      [] line.fmt = "%s"   -> S(line.vals[1])
      [] OTHER             -> I(line.vals[1])

\* read_incar: one line.  A line without a keyword is skipped; a keyword
\* of no category changes nothing.
ReadIncarLine(s, line, key) ==
    CASE key \in float_keys ->
            [s EXCEPT !.params.float_params[key] = LineVal(line)]
      [] key \in exp_keys ->
            [s EXCEPT !.params.exp_params[key] = LineVal(line)]
      [] key \in string_keys ->
            [s EXCEPT !.params.string_params[key] = LineVal(line)]
      [] key \in int_keys ->
            [s EXCEPT !.params.int_params[key] = LineVal(line),
                      !.calc.spinpol =
                          IF key = "ispin" /\ LineVal(line) = I(2)
                          THEN B(TRUE) ELSE @]
      [] key \in bool_keys ->
            [s EXCEPT !.params.bool_params[key] = LineVal(line)]
      [] key = "magmom" ->
            [s EXCEPT !.params.list_params[key] =
                          L(DecodeMagmom(MagmomData(line.vals), 1, <<>>)),
                      !.calc.atoms =
                          IF @ = None THEN @
                          ELSE A([@.v EXCEPT !.magmoms =
                                   [n \in DOMAIN s.calc.resort.v |->
                                       DecodeMagmom(MagmomData(line.vals), 1, <<>>)
                                           [s.calc.resort.v[n] + 1]]])]
      [] key \in {"dipol", "eint", "ferwe", "ferdo", "ropt", "rwigs", "ldauu",
                  "ldaul", "ldauj", "iband", "kpuse"} ->
            [s EXCEPT !.params.list_params[key] = L(line.vals)]
      [] key \in {"random_seed", "vdw_c6", "vdw_c6au", "vdw_r0", "vdw_r0au",
                  "vdw_alpha"} ->
            [s EXCEPT !.params.list_params[key] = L(<<>>)]
      [] key \in special_keys ->
            [s EXCEPT !.params.special_params[key] =
                          IF line.fmt = "unterminated" THEN @ ELSE LineVal(line)]
      [] OTHER -> s

RECURSIVE ReadIncarFrom(_, _)
ReadIncarFrom(s, i) ==
    IF i > Len(s.incar) THEN s
    ELSE ReadIncarFrom(ReadIncarLine(s, s.incar[i], KeyOf(s.incar[i].name)), i + 1)

read_incar(s) ==
    IF "INCAR" \notin s.files THEN Raise(s, "IOError")
    ELSE ReadIncarFrom([ReadFile(s, "INCAR") EXCEPT !.calc.spinpol = B(FALSE)], 1)

write_potcar(s) == Wrote(s, "POTCAR")
\* A writer that leaves the sort file out.
NoSortFile(s) == s
write_sort_file(s) == Wrote(s, "ase-sort.dat")

\* The kpts values of the model are integer triples, which write_kpoints
\* leaves as they are.
\* A writer that pays no attention to kspacing.
AlwaysWriteKpoints(s) == Wrote(s, "KPOINTS")
write_kpoints(s) ==
    LET kspacing == s.params.float_params["kspacing"]
    IN  IF kspacing # None
        THEN IF kspacing.v > 0 THEN s
             ELSE RaiseMsg(s, "ValueError", "KSPACING value is not allowable", kspacing)
        ELSE Wrote(s, "KPOINTS")

(***************************************************************************)
(* Process invocation.  out is what the external program does when it is   *)
(* launched: its exit status, what the launcher script does, and what it   *)
(* writes to its reports.                                                  *)
(***************************************************************************)
\* The files the external program leaves when it exits with status 0.
OutputFiles == {"CONTCAR", "OUTCAR", "OSZICAR", "EIGENVAL", "IBZKPT", "DOSCAR"}

\* A launch that always goes through the script.
LaunchScript(s, via) ==
    [s EXCEPT !.nlaunch = @ + 1, !.via = "script",
              !.trace = Append(@, <<"launch", "script">>)]
Launch(s, via) ==
    [s EXCEPT !.nlaunch = @ + 1, !.via = via,
              !.trace = Append(@, <<"launch", via>>)]

run(s, out) ==
    LET txt == s.params.input_params.txt
        s1 == [s EXCEPT !.sys_stderr =
                  IF txt = None THEN "devnull"
                  ELSE IF txt = S("-") THEN @
                  ELSE IF txt.t = "str" THEN "file"
                  ELSE @]
        restore(x) == [x EXCEPT !.sys_stderr = s.sys_stderr]
        exited(x) ==
            IF out.exitcode # 0
            THEN RaiseMsg(restore(x), "RuntimeError",
                          "Vasp exited with exit code", I(out.exitcode))
            ELSE [restore(x) EXCEPT !.files = @ \cup OutputFiles,
                                    !.outrun = x.nlaunch]
    IN  IF s.environ.VASP_COMMAND
        THEN exited(Launch(s1, "command"))
        ELSE IF s.environ.VASP_SCRIPT
        THEN CASE out.script = "raises" -> Raise(Launch(s1, "script"), "ScriptError")
               [] out.script = "noexit" -> Raise(Launch(s1, "script"), "KeyError")
               [] OTHER                 -> exited(Launch(s1, "script"))
        ELSE RaiseMsg(s1, "RuntimeError",
                      "Please set either VASP_COMMAND or VASP_SCRIPT", None)
(***************************************************************************)
(* The result parser.  A value parsed from the reports of launch k is      *)
(* R(k).                                                                   *)
(***************************************************************************)
\* read_convergence: out.econv is what the last energy-change line of the
\* report gives ("absent" when the report has none), out.relaxed whether the
\* report holds the required-accuracy marker.
read_convergence(s, out) ==
    LET ibrion == s.params.int_params["ibrion"]
        nsw == s.params.int_params["nsw"]
        electronic == CASE out.econv = "yes" -> B(TRUE)
                        [] out.econv = "no"  -> B(FALSE)
                        [] OTHER             -> None
    IN  IF ibrion \in {I(1), I(2), I(3)} /\ nsw # I(0)
        THEN B(out.relaxed)
        ELSE electronic

\* numpy's array[index]: the rows of array the list index names, in the
\* order of index.
Take(array, index) ==
    [i \in DOMAIN index |-> array[PyIndex(index[i], Len(array)) + 1]]

\* read_forces: OUTCAR holds a block of rows, one for each atom in the
\* order of POSCAR, behind each TOTAL-FORCE line; blocks is the list of
\* the blocks.  The rows of the last block, or of every block with
\* all=True, through resort.
ForcesInFileOrder(blocks, resort, all) ==
    IF all THEN blocks ELSE blocks[Len(blocks)]
read_forces(blocks, resort, all) ==
    IF all THEN [b \in DOMAIN blocks |-> Take(blocks[b], resort)]
    ELSE Take(blocks[Len(blocks)], resort)

\* read_magnetic_moments: zeros, overwritten by the rows behind each
\* 'magnetization (x)' line, through resort.
read_magnetic_moments(blocks, natoms, resort) ==
    Take(IF blocks = <<>> THEN [m \in 1..natoms |-> 0] ELSE blocks[Len(blocks)],
         resort)

\* calculate: atoms.positions = atoms_sorted[self.resort].positions, for
\* the rows of CONTCAR.
contcar_positions(rows, resort) == Take(rows, resort)

(***************************************************************************)
(* The lines of OUTCAR.  A line is a record: t names what the line holds,  *)
(* n and a are numbers on it, b is the text of a number, a list of         *)
(* characters.  The energies are integers counting units of 10^-8.         *)
(***************************************************************************)
Line(t, n, a, b) == [t |-> t, n |-> n, a |-> a, b |-> b]

\* str.split(sep) for a separator of one character
RECURSIVE SplitAt(_, _, _, _)
SplitAt(chars, sep, cur, acc) ==
    IF chars = <<>> THEN Append(acc, cur)
    ELSE IF Head(chars) = sep
    THEN SplitAt(Tail(chars), sep, <<>>, Append(acc, cur))
    ELSE SplitAt(Tail(chars), sep, Append(cur, Head(chars)), acc)
\* sep.join(parts)
RECURSIVE JoinWith(_, _)
JoinWith(parts, sep) ==
    IF Len(parts) = 1 THEN parts[1]
    ELSE parts[1] \o <<sep>> \o JoinWith(Tail(parts), sep)
\* str.replace('-e', 'e-')
RECURSIVE ReplaceMinusE(_)
ReplaceMinusE(chars) ==
    IF Len(chars) < 2 THEN chars
    ELSE IF chars[1] = "-" /\ chars[2] = "e"
    THEN <<"e", "-">> \o ReplaceMinusE(SubSeq(chars, 3, Len(chars)))
    ELSE <<chars[1]>> \o ReplaceMinusE(Tail(chars))

\* read_convergence, the second number of an energy-change line: a text
\* without e or E gets an e in front of what follows its last '-'.
repair_exponent(b) ==
    IF \E i \in DOMAIN b : b[i] \in {"e", "E"} THEN b
    ELSE ReplaceMinusE(JoinWith(
             [SplitAt(b, "-", <<>>, <<>>)
                 EXCEPT ![Len(SplitAt(b, "-", <<>>, <<>>))] = <<"e">> \o @], "-"))

\* float(text): what Python accepts, and the size of the number.
RECURSIVE Strip(_)
Strip(chars) ==
    IF chars # <<>> /\ Head(chars) = " " THEN Strip(Tail(chars))
    ELSE IF chars # <<>> /\ chars[Len(chars)] = " "
    THEN Strip(SubSeq(chars, 1, Len(chars) - 1))
    ELSE chars
Unsigned(q) == IF q # <<>> /\ q[1] \in {"+", "-"} THEN Tail(q) ELSE q
IsDigits(q) == q # <<>> /\ \A i \in DOMAIN q : InSeq(q[i], IntStr)
ExpAt(q) ==
    IF \E i \in DOMAIN q : q[i] \in {"e", "E"}
    THEN CHOOSE i \in DOMAIN q : q[i] \in {"e", "E"} /\ \A j \in 1..(i - 1) : q[j] \notin {"e", "E"}
    ELSE Len(q) + 1
NoDot(m) == SelectSeq(m, LAMBDA c : c # ".")
IsMantissa(m) == IsDigits(NoDot(m)) /\ Len(m) - Len(NoDot(m)) <= 1
IsFloatBody(q) ==
    /\ IsMantissa(SubSeq(q, 1, ExpAt(q) - 1))
    /\ ExpAt(q) > Len(q) \/ IsDigits(Unsigned(SubSeq(q, ExpAt(q) + 1, Len(q))))
IsFloat(chars) == IsFloatBody(Unsigned(Strip(chars)))

RECURSIVE Pow10(_)
Pow10(n) == IF n = 0 THEN 1 ELSE 10 * Pow10(n - 1)
ExponentOf(q) ==
    IF ExpAt(q) > Len(q) THEN 0
    ELSE IF q[ExpAt(q) + 1] = "-"
    THEN -ParseNat(SubSeq(q, ExpAt(q) + 2, Len(q)), 0)
    ELSE ParseNat(Unsigned(SubSeq(q, ExpAt(q) + 1, Len(q))), 0)
Shifted(digits, shift) ==
    IF shift >= 0 THEN ParseNat(digits, 0) * Pow10(shift)
    ELSE IF -shift > 9 THEN 0
    ELSE ParseNat(digits, 0) \div Pow10(-shift)
\* abs(float(text)) in units of 10^-8, rounded down
Decimals(m) == IF DotOf(m) > Len(m) THEN 0 ELSE Len(m) - DotOf(m)
AbsFloatBody(q, m) ==
    Shifted(NoDot(m), ExponentOf(q) - Decimals(m) + 8)
AbsFloat(chars) ==
    AbsFloatBody(Unsigned(Strip(chars)),
                 SubSeq(Unsigned(Strip(chars)), 1, ExpAt(Unsigned(Strip(chars))) - 1))
Abs(x) == IF x < 0 THEN -x ELSE x

\* [abs(a), abs(b)] < [ediff, ediff]: Python compares lists item by item
ListLess(a, b, ediff) == a < ediff \/ (a = ediff /\ b < ediff)

\* read_convergence, the loop over the lines: ediff is the number of the
\* last EDIFF line (-1 before one), converged what the last
\* energy-change line gave ("absent" before one).  An energy-change line
\* with the word MIXING (t = "MIXING") is passed over.
RECURSIVE ElectronicFrom(_, _, _, _)
ElectronicFrom(lines, i, ediff, converged) ==
    IF i > Len(lines) THEN converged
    ELSE IF lines[i].t = "EDIFF"
    THEN ElectronicFrom(lines, i + 1, lines[i].n, converged)
    ELSE IF lines[i].t = "energy-change"
    THEN IF ~IsFloat(repair_exponent(lines[i].b)) THEN "ValueError"
         ELSE IF ediff = -1 THEN "NameError"
         ELSE ElectronicFrom(lines, i + 1, ediff,
                  IF ListLess(Abs(lines[i].a),
                              AbsFloat(repair_exponent(lines[i].b)), ediff)
                  THEN "yes" ELSE "no")
    ELSE ElectronicFrom(lines, i + 1, ediff, converged)

\* read_relaxed
read_relaxed(lines) == \E i \in DOMAIN lines : lines[i].t = "accuracy"

\* read_number_of_iterations: the number in the brackets of the last
\* '- Iteration' line.
RECURSIVE IterationsFrom(_, _, _)
IterationsFrom(lines, i, niter) ==
    IF i > Len(lines) THEN niter
    ELSE IterationsFrom(lines, i + 1,
             IF lines[i].t = "Iteration" THEN I(lines[i].n) ELSE niter)
read_number_of_iterations(lines) == IterationsFrom(lines, 1, None)

\* todict: the parameters of all categories that are not None, as a
\* keyword list in the order of the categories.
todict(p) ==
    Flatten([i \in DOMAIN Categories |->
        [j \in DOMAIN SeqOf({k \in DOMAIN p[Categories[i]] : p[Categories[i]][k] # None})
            |-> <<SeqOf({k \in DOMAIN p[Categories[i]] : p[Categories[i]][k] # None})[j],
                  p[Categories[i]][SeqOf({k \in DOMAIN p[Categories[i]] :
                                             p[Categories[i]][k] # None})[j]]>>]])

(***************************************************************************)
(* VaspChargeDensity.  A density object holds, for each frame, the cell    *)
(* volume of its structure and the arrays chg and chgdiff; an array is a   *)
(* record of its shape and its data, a function of <<x, y, z>>.  A file is *)
(* a list of tokens: numbers, the block write_vasp writes for a structure, *)
(* a line of augmentation occupancies, and the newline NL.                 *)
(***************************************************************************)
NL == [k |-> "nl", v |-> 0]
Num(n) == [k |-> "num", v |-> n]
Aug(n) == [k |-> "augmentation", v |-> n]
\* ase.io.vasp.write_vasp: the lines of a structure
write_vasp(volume) == <<[k |-> "atoms", v |-> volume], NL>>

Size(shape) == shape[1] * shape[2] * shape[3]
\* chg.T.ravel(): x runs fastest
Ravel(array) ==
    [k \in 1..Size(array.shape) |->
        array.data[<<((k - 1) % array.shape[1]) + 1,
                     (((k - 1) \div array.shape[1]) % array.shape[2]) + 1,
                     ((k - 1) \div (array.shape[1] * array.shape[2])) + 1>>]]
\* '%#11.5G': five significant digits
RECURSIVE Round5(_)
Round5(n) ==
    IF n < 0 THEN -Round5(-n)
    ELSE IF n < 100000 THEN n
    ELSE 10 * Round5((n + 5) \div 10)
\* ' %4i' for each of the dimensions
ShapeTokens(shape) == <<Num(shape[1]), Num(shape[2]), Num(shape[3])>>

\* _write_chg: the values times the volume, ten to a line for the format
\* chg and five to a line otherwise, and a newline behind the last.
write_chg(array, volume, format) ==
    Flatten([k \in 1..Size(array.shape) |->
        <<Num(IF format = "chg" THEN Round5(Ravel(array)[k] * volume)
              ELSE Ravel(array)[k] * volume)>>
        \o (IF k % (IF format = "chg" THEN 10 ELSE 5) = 0 \/ k = Size(array.shape)
            THEN <<NL>> ELSE <<>>)])

\* write: the format the file name gives
FormatOf(den, filename) ==
    CASE filename = "CHGCAR" -> "chgcar"
      [] filename = "CHG"    -> "chg"
      [] OTHER -> IF Len(den.chg) = 1 THEN "chgcar" ELSE "chg"
\* write: what is written for frame ii
WriteFrame(den, ii, format) ==
    write_vasp(den.atoms[ii]) \o <<NL>>
    \o ShapeTokens(den.chg[ii].shape) \o <<NL>>
    \o write_chg(den.chg[ii], den.atoms[ii], format)
    \o (IF format = "chgcar" THEN den.aug ELSE <<>>)
    \o (IF Len(den.chgdiff) > 0
        THEN (IF format = "chg" THEN <<NL>> ELSE <<>>)
             \o ShapeTokens(den.chg[ii].shape)
             \o write_chg(den.chgdiff[ii], den.atoms[ii], format)
             \o (IF format = "chgcar" THEN <<NL>> \o den.augdiff ELSE <<>>)
        ELSE <<>>)
    \o (IF format = "chg" /\ Len(den.chg) > 1 THEN <<NL>> ELSE <<>>)
DensityWrite(den, filename) ==
    Flatten([ii \in 1..Len(den.chg) |->
        IF FormatOf(den, filename) = "chgcar" /\ ii # Len(den.chg) THEN <<>>
        ELSE WriteFrame(den, ii, FormatOf(den, filename))])

\* f.readline() at place i of file f: the end of the line, and its words
LineEnd(f, i) ==
    IF \E j \in i..Len(f) : f[j] = NL
    THEN CHOOSE j \in i..Len(f) : f[j] = NL /\ \A m \in i..(j - 1) : f[m] # NL
    ELSE Len(f)
Words(f, i) == SelectSeq(SubSeq(f, i, LineEnd(f, i)), LAMBDA tok : tok # NL)
\* the next place that holds no newline
RECURSIVE SkipNL(_, _)
SkipNL(f, i) == IF i <= Len(f) /\ f[i] = NL THEN SkipNL(f, i + 1) ELSE i
\* np.fromfile(fobj, count, sep=' '), called for all rows of an array: the
\* next n numbers, and the place behind them and the white space that
\* follows.
RECURSIVE FromFile(_, _, _, _)
FromFile(f, i, n, acc) ==
    IF n = 0 THEN [ok |-> TRUE, values |-> acc, pos |-> SkipNL(f, i)]
    ELSE IF SkipNL(f, i) > Len(f) \/ f[SkipNL(f, i)].k # "num"
    THEN [ok |-> FALSE, values |-> acc, pos |-> SkipNL(f, i)]
    ELSE FromFile(f, SkipNL(f, i) + 1, n - 1, Append(acc, f[SkipNL(f, i)].v))
\* _read_chg: chg[:, yy, zz] for zz, for yy, and chg /= volume
ArrayOf(shape, values, volume) ==
    [shape |-> shape,
     data |-> [c \in (1..shape[1]) \X (1..shape[2]) \X (1..shape[3]) |->
                 values[c[1] + shape[1] * ((c[2] - 1) + shape[2] * (c[3] - 1))]
                     \div volume]]
ShapeOf(ngr) == <<ngr[1].v, ngr[2].v, ngr[3].v>>
EmptyDensity == [atoms |-> <<>>, chg |-> <<>>, chgdiff |-> <<>>, aug |-> <<>>,
                 augdiff |-> <<>>, err |-> "none"]

\* read, the loop over the lines behind an augmentation line: a line equal
\* to the grid line ends the augmentation charges and starts chgdiff.
RECURSIVE AugLoop(_, _, _, _, _, _)
AugLoop(f, i, ngr, volume, augs, den) ==
    IF i <= Len(f) /\ Words(f, i) = ngr
    THEN IF FromFile(f, LineEnd(f, i) + 1, Size(ShapeOf(ngr)), <<>>).ok
         THEN AugLoop(f, FromFile(f, LineEnd(f, i) + 1, Size(ShapeOf(ngr)), <<>>).pos,
                      ngr, volume, <<>>,
                      [den EXCEPT !.aug = augs,
                                  !.chgdiff = Append(@, ArrayOf(ShapeOf(ngr),
                                      FromFile(f, LineEnd(f, i) + 1,
                                               Size(ShapeOf(ngr)), <<>>).values,
                                      volume))])
         ELSE [den EXCEPT !.err = "ValueError"]
    ELSE IF i > Len(f)
    THEN IF den.aug = <<>> THEN [den EXCEPT !.aug = augs]
         ELSE [den EXCEPT !.augdiff = augs]
    ELSE AugLoop(f, LineEnd(f, i) + 1, ngr, volume,
                 augs \o SubSeq(f, i, LineEnd(f, i)), den)

\* read: the frames from place i of the file.  ase.io.vasp.read_vasp
\* raises where no structure starts, which ends the loop.
RECURSIVE ReadFrames(_, _, _)
\* read, behind the array chg of a frame whose grid line ngr ended at j
AfterChg(f, ngr, volume, r, den) ==
    IF ~r.ok THEN [den EXCEPT !.err = "ValueError"]
    ELSE IF r.pos > Len(f) THEN den
    ELSE IF \E tok \in {Words(f, r.pos)[m] : m \in DOMAIN Words(f, r.pos)} :
                tok.k = "augmentation"
    THEN ReadFrames(f, Len(f) + 1,
                    AugLoop(f, LineEnd(f, r.pos) + 1, ngr, volume,
                            SubSeq(f, r.pos, LineEnd(f, r.pos)), den))
    ELSE IF Words(f, r.pos) = ngr
    THEN IF FromFile(f, LineEnd(f, r.pos) + 1, Size(ShapeOf(ngr)), <<>>).ok
         THEN ReadFrames(f,
                  FromFile(f, LineEnd(f, r.pos) + 1, Size(ShapeOf(ngr)), <<>>).pos,
                  [den EXCEPT !.chgdiff = Append(@, ArrayOf(ShapeOf(ngr),
                       FromFile(f, LineEnd(f, r.pos) + 1,
                                Size(ShapeOf(ngr)), <<>>).values, volume))])
         ELSE [den EXCEPT !.err = "ValueError"]
    ELSE ReadFrames(f, r.pos, den)
\* read, behind the structure of a frame: a line is passed over, the grid
\* line is at place j
FrameAt(f, j, volume, den) ==
    IF j > Len(f) \/ Len(Words(f, j)) < 3 THEN [den EXCEPT !.err = "IndexError"]
    ELSE IF \E m \in 1..3 : Words(f, j)[m].k # "num"
    THEN [den EXCEPT !.err = "ValueError"]
    ELSE AfterChg(f, Words(f, j), volume,
                  FromFile(f, LineEnd(f, j) + 1, Size(ShapeOf(Words(f, j))), <<>>),
                  IF FromFile(f, LineEnd(f, j) + 1, Size(ShapeOf(Words(f, j))), <<>>).ok
                  THEN [den EXCEPT
                          !.atoms = Append(@, volume),
                          !.chg = Append(@, ArrayOf(ShapeOf(Words(f, j)),
                              FromFile(f, LineEnd(f, j) + 1,
                                       Size(ShapeOf(Words(f, j))), <<>>).values,
                              volume))]
                  ELSE den)
ReadFrames(f, i, den) ==
    IF den.err # "none" THEN den
    ELSE IF i > Len(f) \/ f[i].k # "atoms" THEN den
    ELSE FrameAt(f, LineEnd(f, LineEnd(f, i) + 1) + 1, f[i].v, den)
DensityRead(f) == ReadFrames(f, 1, EmptyDensity)

\* Calculator.read of ase/calculators/general.py: the positions of the
\* structure, the energies, forces, dipole, Fermi level, band count and
\* stress of the report, and a copy of the structure.
read(s, atoms, out) ==
    LET k == s.outrun
    IN  [s EXCEPT !.calc.positions = I(atoms.pos),
                  !.calc.atoms = A(atoms),
                  !.results = [@ EXCEPT !["energy_free"] = R(k),
                                        !["energy_zero"] = R(k),
                                        !["forces"] = R(k),
                                        !["dipole"] = R(k),
                                        !["fermi"] = R(k),
                                        !["nbands"] = R(k),
                                        !["stress"] = IF out.stress THEN R(k) ELSE None],
                  !.trace = Append(@, <<"read", "OUTCAR">>)]

\* set_results without the snapshot of the parameters.
ResultsWithoutSnapshot(s, atoms, out) ==
    [read(s, atoms, out) EXCEPT !.parsed = TRUE]

set_results(s, atoms, out) ==
    LET k == s.outrun
        lorbit == s.params.int_params["lorbit"]
        magnetic(s1) ==
            IF Truthy(s1.calc.spinpol)
            THEN [s1 EXCEPT !.results =
                    [@ EXCEPT !["magnetic_moment"] = R(k),
                              !["magnetic_moments"] =
                                  IF lorbit # None /\
                                     (lorbit.v >= 10 \/ Truthy(s.params.list_params["rwigs"]))
                                  THEN R(k) ELSE None]]
            ELSE s1
    IN  [magnetic(read(s, atoms, out)) EXCEPT
            !.old_params = [c \in SnapshotCategories |-> s.params[c]],
            !.calc.atoms = A(atoms),
            !.results = [@ EXCEPT !["version"] = R(k), !["niter"] = R(k),
                                  !["sigma"] = R(k), !["nelect"] = R(k)],
            !.parsed = TRUE]

(***************************************************************************)
(* calculate and update.  s.arg is the Atoms object the call was given     *)
(* (None when update is given self.atoms of a calculator that has none);   *)
(* calculate writes the relaxed positions into it.                         *)
(***************************************************************************)
calculate(s, out) ==
    LET ibrion == s.params.int_params["ibrion"]
        nsw == s.params.int_params["nsw"]
        parse(s6) ==
            set_results([s6 EXCEPT !.calc.converged = read_convergence(s6, out)],
                        s6.arg.v, out)
        \* the positions and the cell read from CONTCAR go into atoms
        contcar(s5) ==
            parse(IF ibrion # None /\ nsw # None /\ ibrion.v > -1 /\ nsw.v > 0
                  THEN [s5 EXCEPT !.arg = A([@.v EXCEPT !.pos = out.pos,
                                                        !.cell = TRUE])]
                  ELSE s5)
        ran(s4) == IF Failed(s4) THEN s4 ELSE contcar(ReadFile(s4, "CONTCAR"))
        written(s3) ==
            IF Failed(s3) THEN s3 ELSE ran(run(write_sort_file(s3), out))
        initialized(s1) ==
            IF Failed(s1) THEN s1
            ELSE written(write_kpoints(write_potcar(write_incar(
                                           Wrote(s1, "POSCAR")))))
    IN  IF s.arg = None THEN Raise(s, "AttributeError")
        ELSE IF ~s.arg.v.cell
        THEN RaiseMsg(s, "ValueError", "The lattice vectors are zero", None)
        ELSE initialized(initialize(s, s.arg.v))

update(s, out) ==
    IF calculation_required(s, s.arg, {"energy"})
    THEN IF s.calc.atoms # None /\ s.arg = None
         THEN Raise(s, "AttributeError")
         ELSE calculate(IF \/ s.calc.atoms = None
                           \/ Len(s.calc.atoms.v.symbols) # Len(s.arg.v.symbols)
                        THEN clean(s) ELSE s, out)
    ELSE s

\* set_atoms
set_atoms(s, atoms) ==
    [s EXCEPT !.calc.converged = IF A(atoms) # s.calc.atoms THEN None ELSE @,
              !.calc.atoms = A(atoms)]

(***************************************************************************)
(* The result accessors.  Each returns s with ret the value returned, or   *)
(* with the exception raised.                                              *)
(***************************************************************************)
\* return self.<attr>
Attr(s, attr) ==
    IF Failed(s) THEN s
    ELSE IF s.results[attr] = Unset THEN Raise(s, "AttributeError")
    ELSE [s EXCEPT !.ret = s.results[attr]]

\* update(self.atoms)
update_self(s, out) == update([s EXCEPT !.arg = s.calc.atoms], out)

get_potential_energy(s, force_consistent, out) ==
    Attr(update(s, out), IF force_consistent THEN "energy_free" ELSE "energy_zero")
get_forces(s, out) == Attr(update(s, out), "forces")
get_stress(s, out) ==
    LET stress(s1) ==
            IF Failed(s1) THEN s1
            ELSE IF s1.results["stress"] = None
            THEN Raise(s1, "PropertyNotImplementedError")
            ELSE Attr(s1, "stress")
    IN  stress(update(s, out))
get_dipole_moment(s, out) == Attr(update(s, out), "dipole")
get_magnetic_moment(s, out) == Attr(update(s, out), "magnetic_moment")
get_magnetic_moments(s, out) ==
    LET lorbit == s.params.int_params["lorbit"]
    IN  IF (lorbit # None /\ lorbit.v >= 10) \/ Truthy(s.params.list_params["rwigs"])
        THEN Attr(update(s, out), "magnetic_moments")
        ELSE [s EXCEPT !.ret = None]
get_fermi_level(s) == Attr(s, "fermi")
get_number_of_bands(s) == Attr(s, "nbands")
get_number_of_iterations(s, out) == Attr(update_self(s, out), "niter")
get_eigenvalues(s, out) ==
    LET eigenval(s1) ==
            IF Failed(s1) THEN s1
            ELSE IF "EIGENVAL" \notin s1.files THEN Raise(s1, "IOError")
            ELSE [ReadFile(s1, "EIGENVAL") EXCEPT !.ret = R(s1.outrun)]
    IN  eigenval(update_self(s, out))

implemented_properties ==
    {"energy", "forces", "dipole", "fermi", "stress", "magmom", "magmoms"}

saved_property(name) ==
    CASE name = "energy"  -> "energy_zero"
      [] name = "forces"  -> "forces"
      [] name = "dipole"  -> "dipole"
      [] name = "fermi"   -> "fermi"
      [] name = "stress"  -> "stress"
      [] name = "magmom"  -> "magnetic_moment"
      [] name = "magmoms" -> "magnetic_moments"

\* get_property; s.arg is its atoms argument, self.atoms when that is None.
get_property(s, name, allow_calculation, out) ==
    IF name \notin implemented_properties
    THEN Raise(s, "PropertyNotImplementedError")
    ELSE IF allow_calculation
    THEN CASE name = "energy"  -> get_potential_energy(s, FALSE, out)
           [] name = "forces"  -> get_forces(s, out)
           [] name = "dipole"  -> get_dipole_moment(s, out)
           [] name = "fermi"   -> get_fermi_level(s)
           [] name = "stress"  -> get_stress(s, out)
           [] name = "magmom"  -> get_magnetic_moment(s, out)
           [] name = "magmoms" -> get_magnetic_moments(s, out)
    ELSE [s EXCEPT !.ret = IF s.results[saved_property(name)] = Unset
                           THEN None ELSE s.results[saved_property(name)]]
(***************************************************************************)
(* The state: the calculator object, the caller's structure, the process   *)
(* environment, and what the last call did.                                *)
(***************************************************************************)
VARIABLES
    params,      \* the nine parameter dictionaries of the calculator
    old_params,  \* the eight old_*_params snapshots
    calc,        \* the other attributes: atoms, positions, converged, sort, ...
    results,     \* the result attributes: energy_zero, forces, stress, ...
    atoms,       \* the caller's Atoms object
    environ,     \* os.environ: VASP_COMMAND, VASP_SCRIPT, VASP_PP_PATH
    ppfiles,     \* the pseudopotential files on disk
    files,       \* the files of the working directory
    sys_stderr,  \* what sys.stderr is bound to
    nlaunch,     \* launches of the external program so far
    outrun,      \* the launch whose reports the working directory holds
    incar,       \* the lines of the file INCAR behind its header line
    nset,        \* calls of set so far
    ncalls,      \* calls of any kind so far
    last         \* the last call: its kind, result, exception, launches

vars ==
    <<params, old_params, calc, results, atoms, environ, ppfiles, files,
      sys_stderr, nlaunch, outrun, incar, nset, ncalls, last>>

\* Bounds of the model.
MaxCalls == 3
MaxSets == 1
MaxRuns == 2
MaxAtoms == 4

\* The world a call starts in, given the Atoms object arg.
World(arg) ==
    [params |-> params, old_params |-> old_params, calc |-> calc,
     results |-> results, environ |-> environ, ppfiles |-> ppfiles,
     files |-> files, sys_stderr |-> sys_stderr, nlaunch |-> nlaunch,
     outrun |-> outrun, arg |-> arg, err |-> "none", errmsg |-> "",
     errarg |-> None, ret |-> Unset, trace |-> <<>>, via |-> "none",
     parsed |-> FALSE, incar |-> incar]

\* The state a call leaves.
Commit(r) ==
    /\ params' = r.params
    /\ old_params' = r.old_params
    /\ calc' = r.calc
    /\ results' = r.results
    /\ files' = r.files
    /\ sys_stderr' = r.sys_stderr
    /\ nlaunch' = r.nlaunch
    /\ outrun' = r.outrun
    /\ incar' = r.incar
    /\ UNCHANGED <<environ, ppfiles>>

\* What the external program may do when launched: exit with zero and
\* leave reports (electronically converged or not, relaxed or not, with or
\* without a stress tensor, the atoms moved or not), exit with another
\* code, or, as a script, fail to report an exit code.
Success(e, rl, st, q) ==
    [exitcode |-> 0, script |-> "ok", econv |-> e, relaxed |-> rl,
     stress |-> st, pos |-> q]
\* What is recorded of the external program for a call that did not launch it.
NoOutcome == [Success("absent", FALSE, FALSE, 0) EXCEPT !.script = "none"]

\* What is recorded of a call that started in s0 and ended in r.
Obs(kind, s0, r, out) ==
    [kind |-> kind, kwargs |-> <<>>,
     out |-> IF r.nlaunch > s0.nlaunch THEN out ELSE NoOutcome,
     err |-> r.err, errmsg |-> r.errmsg, errarg |-> r.errarg,
     ret |-> r.ret, launched |-> r.nlaunch - s0.nlaunch, via |-> r.via,
     stale |-> calculation_required(s0, s0.arg, {"energy"}),
     parsed |-> r.parsed, trace |-> r.trace, arg |-> r.arg]

\* The attributes __init__ leaves besides the parameters.
InitCalc ==
    [atoms |-> None, positions |-> None, converged |-> Unset, spinpol |-> Unset,
     natoms |-> Unset, all_symbols |-> Unset, sort |-> Unset, resort |-> Unset,
     symbol_count |-> Unset, ppp_list |-> Unset]
ResultNames ==
    {"energy_free", "energy_zero", "forces", "dipole", "fermi", "stress",
     "nbands", "magnetic_moment", "magnetic_moments", "version", "niter",
     "sigma", "nelect"}
InitResults == [n \in ResultNames |-> IF n = "nbands" THEN None ELSE Unset]
InitLast ==
    [kind |-> "init", kwargs |-> <<>>, out |-> NoOutcome, err |-> "none", errmsg |-> "", errarg |-> None,
     ret |-> Unset, launched |-> 0, via |-> "none", stale |-> TRUE,
     parsed |-> FALSE, trace |-> <<>>, arg |-> None]
(***************************************************************************)
(* The inputs of the model.                                                *)
(***************************************************************************)
Positions == {0, 1}

\* The structures the caller holds: a molecule at two positions and a
\* molecule with initial magnetic moments.
Structures ==
    {[symbols |-> <<"O", "H", "H">>, magmoms |-> <<0, 0, 0>>, pos |-> q,
      cell |-> TRUE] : q \in Positions}
    \cup {[symbols |-> <<"H", "H">>, magmoms |-> <<1, 1>>, pos |-> 0,
           cell |-> TRUE]}

\* What the external program may do when it is launched by a command or
\* by a script.
Programs ==
    {Success("yes", TRUE, TRUE, 0), Success("yes", TRUE, FALSE, 1),
     Success("no", FALSE, TRUE, 0)}
    \cup {[Success("yes", TRUE, TRUE, 0) EXCEPT !.exitcode = c] : c \in {1, 2}}
Scripts ==
    {[Success("yes", TRUE, TRUE, 0) EXCEPT !.script = sc] :
        sc \in {"noexit", "raises"}}
Outcomes ==
    IF ~environ.VASP_COMMAND /\ environ.VASP_SCRIPT
    THEN Programs \cup Scripts ELSE Programs

\* The pseudopotential repository: the standard folders under the second
\* root, one compressed file under the first.
StdFolders == {"potpaw", "potpaw_GGA", "potpaw_PBE"}
Repository ==
    {<<"r2", f, d, "">> : f \in StdFolders, d \in {"H", "O", "H_h"}}
    \cup {<<"r1", "potpaw_PBE", "H", ".Z">>}

Environs ==
    {[VASP_COMMAND |-> c, VASP_SCRIPT |-> sc, VASP_PP_PATH |-> L(<<"r1", "r2">>)] :
        c \in BOOLEAN, sc \in BOOLEAN}
    \cup {[VASP_COMMAND |-> TRUE, VASP_SCRIPT |-> FALSE, VASP_PP_PATH |-> None]}

\* The value set is called with, per key: one key of every category.
SetValues(key) ==
    CASE key = "encut"    -> I(400)
      [] key = "ediff"    -> I(1)
      [] key = "gga"      -> S("PE")
      [] key = "lorbit"   -> I(11)
      [] key = "lhfcalc"  -> B(TRUE)
      [] key = "rwigs"    -> L(<<1>>)
      [] key = "lreal"    -> S("Auto")
      [] key = "ldau_luj" -> D(<<[k |-> S("H"), v |-> [L |-> 2, U |-> 4, J |-> 1]]>>)
      [] key = "txt"      -> S("vasp.log")
SetKeys ==
    {"encut", "ediff", "gga", "lorbit", "lhfcalc", "rwigs", "lreal",
     "ldau_luj", "txt"}

\* The keyword lists set is called with: a single registered key of every
\* category, an xc recipe, an unregistered key alone, before and after a
\* registered key and beside an xc recipe, and a geometry optimization.
SetKwargs ==
    {<< <<key, SetValues(key)>> >> : key \in SetKeys}
    \cup {<< <<"xc", S("pbe")>> >>,
          << <<"not_a_real_key", I(1)>> >>,
          << <<"encut", I(400)>>, <<"not_a_real_key", I(1)>> >>,
          << <<"not_a_real_key", I(1)>>, <<"encut", I(400)>> >>,
          << <<"xc", S("pbe")>>, <<"not_a_real_key", I(1)>> >>,
          << <<"ibrion", I(2)>>, <<"nsw", I(5)>> >>}

\* The properties get_property is asked for.
PropertyNames == {"energy", "fermi", "magmom"}

\* The keyword lists the calculator is constructed with.
InitKwargs == {<<>>}

(***************************************************************************)
(* The calculator in use: constructed, then set, asked for results and     *)
(* given structures in any order.                                          *)
(***************************************************************************)
Init ==
    /\ \E kwargs \in InitKwargs :
          /\ VaspInit(kwargs).err = "none"
          /\ params = VaspInit(kwargs).params
    /\ old_params = [c \in SnapshotCategories |-> Unset]
    /\ calc = InitCalc
    /\ results = InitResults
    /\ atoms \in Structures
    /\ environ \in Environs
    /\ ppfiles = Repository
    /\ files = {}
    /\ sys_stderr = "stderr"
    /\ nlaunch = 0
    /\ outrun = 0
    /\ incar = <<>>
    /\ nset = 0
    /\ ncalls = 0
    /\ last = InitLast

\* calc.set with the keyword list kwargs
Set ==
    /\ ncalls < MaxCalls
    /\ nset < MaxSets
    /\ \E kwargs \in SetKwargs :
          LET r == set(params, kwargs)
          IN  /\ params' = r.params
              /\ last' = [InitLast EXCEPT !.kind = "set", !.kwargs = kwargs,
                             !.err = r.err,
                             !.stale = calculation_required(World(A(atoms)), A(atoms), {"energy"})]
    /\ nset' = nset + 1
    /\ ncalls' = ncalls + 1
    /\ UNCHANGED <<old_params, calc, results, atoms, environ, ppfiles, files,
                   sys_stderr, nlaunch, outrun, incar>>

\* The caller moves the atoms or takes another structure.
ChangeAtoms ==
    /\ ncalls < MaxCalls
    /\ atoms' \in Structures \ {atoms}
    /\ ncalls' = ncalls + 1
    /\ last' = [InitLast EXCEPT !.kind = "atoms"]
    /\ UNCHANGED <<params, old_params, calc, results, environ, ppfiles, files,
                   sys_stderr, nlaunch, outrun, incar, nset>>

\* calc.set_atoms(atoms)
SetAtoms ==
    /\ ncalls < MaxCalls
    /\ ncalls' = ncalls + 1
    /\ Commit(set_atoms(World(A(atoms)), atoms))
    /\ last' = [InitLast EXCEPT !.kind = "set_atoms"]
    /\ UNCHANGED <<atoms, nset>>

\* A call that is given the caller's structure.
CallWith(kind, r, out) ==
    /\ r.nlaunch <= MaxRuns
    /\ ncalls' = ncalls + 1
    /\ Commit(r)
    /\ atoms' = r.arg.v
    /\ last' = Obs(kind, World(A(atoms)), r, out)
    /\ UNCHANGED nset

\* A call that uses self.atoms.
CallSelf(kind, r, out) ==
    /\ r.nlaunch <= MaxRuns
    /\ ncalls' = ncalls + 1
    /\ Commit(r)
    /\ last' = Obs(kind, World(calc.atoms), r, out)
    /\ UNCHANGED <<atoms, nset>>

GetPotentialEnergy ==
    /\ ncalls < MaxCalls
    /\ \E out \in Outcomes, force_consistent \in BOOLEAN :
          CallWith("get", get_potential_energy(World(A(atoms)), force_consistent, out),
                   out)
GetForces ==
    /\ ncalls < MaxCalls
    /\ \E out \in Outcomes :
          CallWith("get", get_forces(World(A(atoms)), out), out)
GetStress ==
    /\ ncalls < MaxCalls
    /\ \E out \in Outcomes :
          CallWith("get", get_stress(World(A(atoms)), out), out)
GetDipoleMoment ==
    /\ ncalls < MaxCalls
    /\ \E out \in Outcomes :
          CallWith("get", get_dipole_moment(World(A(atoms)), out), out)
GetMagneticMoment ==
    /\ ncalls < MaxCalls
    /\ \E out \in Outcomes :
          CallWith("get", get_magnetic_moment(World(A(atoms)), out), out)
GetMagneticMoments ==
    /\ ncalls < MaxCalls
    /\ \E out \in Outcomes :
          CallWith("get", get_magnetic_moments(World(A(atoms)), out), out)
GetFermiLevel ==
    /\ ncalls < MaxCalls
    /\ CallSelf("get", get_fermi_level(World(calc.atoms)), NoOutcome)
GetNumberOfBands ==
    /\ ncalls < MaxCalls
    /\ CallSelf("get", get_number_of_bands(World(calc.atoms)), NoOutcome)
GetNumberOfIterations ==
    /\ ncalls < MaxCalls
    /\ \E out \in Outcomes :
          CallSelf("get", get_number_of_iterations(World(calc.atoms), out), out)
GetEigenvalues ==
    /\ ncalls < MaxCalls
    /\ \E out \in Outcomes :
          CallSelf("get", get_eigenvalues(World(calc.atoms), out), out)
GetProperty ==
    /\ ncalls < MaxCalls
    /\ \E out \in Outcomes, name \in PropertyNames, allow_calculation \in BOOLEAN :
          CallWith(IF allow_calculation THEN "get" ELSE "saved",
                   get_property(World(A(atoms)), name, allow_calculation, out), out)

Next ==
    \/ Set
    \/ ChangeAtoms
    \/ SetAtoms
    \/ GetPotentialEnergy
    \/ GetForces
    \/ GetStress
    \/ GetDipoleMoment
    \/ GetMagneticMoment
    \/ GetMagneticMoments
    \/ GetFermiLevel
    \/ GetNumberOfBands
    \/ GetNumberOfIterations
    \/ GetEigenvalues
    \/ GetProperty

Spec == Init /\ [][Next]_vars

(***************************************************************************)
(* initialize on its own: every structure of up to MaxAtoms atoms of two   *)
(* species, with every setups dictionary whose integer keys, written as    *)
(* integers or as strings, name distinct atoms of the structure, in every  *)
(* iteration order, with or without an entry for a species.                *)
(***************************************************************************)
Species == {"H", "O"}
SortStructures ==
    {[symbols |-> syms, magmoms |-> [i \in DOMAIN syms |-> 0], pos |-> 0,
      cell |-> TRUE] :
        syms \in UNION {[1..n -> Species] : n \in 1..MaxAtoms}}

\* The lists of distinct atom indices of a structure of n atoms.
IndexLists(n) ==
    {q \in UNION {[1..k -> 0..(n - 1)] : k \in 0..n} :
        \A i, j \in DOMAIN q : i # j => q[i] # q[j]}

\* The setups dictionaries for a structure of n atoms.
SortSetups(n) ==
    {D([i \in DOMAIN q |->
           [k |-> IF asStr[i] THEN StrOf(q[i]) ELSE I(q[i]), v |-> "H_h"]] \o named) :
        q \in IndexLists(n), asStr \in [1..n -> BOOLEAN],
        named \in {<<>>, <<[k |-> S("H"), v |-> "_h"]>>}}
    \cup {None}

InitSort ==
    /\ atoms \in SortStructures
    /\ \E setups \in SortSetups(Len(atoms.symbols)) :
          params = VaspInit(<< <<"setups", setups>> >>).params
    /\ old_params = [c \in SnapshotCategories |-> Unset]
    /\ calc = InitCalc
    /\ results = InitResults
    /\ environ = [VASP_COMMAND |-> TRUE, VASP_SCRIPT |-> FALSE,
                  VASP_PP_PATH |-> L(<<"r1", "r2">>)]
    /\ ppfiles = Repository
    /\ files = {}
    /\ sys_stderr = "stderr"
    /\ nlaunch = 0
    /\ outrun = 0
    /\ incar = <<>>
    /\ nset = 0
    /\ ncalls = 0
    /\ last = InitLast

\* calc.initialize(atoms)
Initialize ==
    /\ ncalls = 0
    /\ ncalls' = 1
    /\ \E r \in {initialize(World(A(atoms)), atoms)} :
          /\ Commit(r)
          /\ last' = Obs("initialize", World(A(atoms)), r, NoOutcome)
    /\ UNCHANGED <<atoms, nset>>

NextSort == Initialize

SpecSort == InitSort /\ [][NextSort]_vars

(***************************************************************************)
(* write_incar and read_incar on their own: a calculator constructed with  *)
(* keys of every category, with an elastic band, with LDA+U settings or    *)
(* with a list of moments, and a structure with or without moments, is     *)
(* initialized, writes INCAR and reads it back.                            *)
(***************************************************************************)
Moments == {0, 10000, -12345}
MaxMoments == 3
MomentLists == UNION {[1..n -> Moments] : n \in 1..MaxMoments}
IncarStructures ==
    {[symbols |-> syms, magmoms |-> m, pos |-> 0, cell |-> TRUE] :
        syms \in {<<"H", "O", "H">>}, m \in [1..3 -> Moments]}
    \cup {[symbols |-> syms, magmoms |-> m, pos |-> 0, cell |-> TRUE] :
            syms \in {<<"H", "H">>, <<"O", "H">>}, m \in [1..2 -> Moments]}

IncarKwargs ==
    {<< <<key, SetValues(key)>> >> : key \in SetKeys \ {"txt"}}
    \cup {<< <<"magmom", L(m)>> >> : m \in MomentLists}
    \cup {<<>>,
          << <<"magmom", L(<<10000, 10000, 10000, 20000>>)>> >>,
          << <<"lreal", B(TRUE)>> >>,
          << <<"random_seed", L(<<1, 2, 3>>)>> >>,
          << <<"iband", L(<<1, 2>>)>> >>,
          << <<"ferwe", L(<<1, 0>>)>> >>,
          << <<"dipol", L(<<0, 0, 0>>)>> >>,
          << <<"ispin", I(2)>> >>,
          << <<"ldauu", L(<<4, 0>>)>>, <<"ldaul", L(<<2, -1>>)>> >>,
          << <<"ldauu", L(<<4, 0>>)>>, <<"ldau_luj", SetValues("ldau_luj")>> >>,
          << <<"ichain", I(0)>> >>,
          << <<"ichain", I(1)>> >>,
          << <<"ichain", I(1)>>, <<"iopt", I(2)>> >>,
          << <<"ichain", I(1)>>, <<"ibrion", I(1)>> >>,
          << <<"ichain", I(1)>>, <<"potim", I(0)>> >>}

InitIncar ==
    /\ atoms \in IncarStructures
    /\ \E kwargs \in IncarKwargs : params = VaspInit(kwargs).params
    /\ old_params = [c \in SnapshotCategories |-> Unset]
    /\ calc = InitCalc
    /\ results = InitResults
    /\ environ = [VASP_COMMAND |-> TRUE, VASP_SCRIPT |-> FALSE,
                  VASP_PP_PATH |-> L(<<"r1", "r2">>)]
    /\ ppfiles = Repository
    /\ files = {}
    /\ sys_stderr = "stderr"
    /\ nlaunch = 0
    /\ outrun = 0
    /\ incar = <<>>
    /\ nset = 0
    /\ ncalls = 0
    /\ last = InitLast

\* calc.write_incar(atoms), after initialize
WriteIncar ==
    /\ ncalls = 1
    /\ last.kind = "initialize"
    /\ last.err = "none"
    /\ ncalls' = 2
    /\ \E r \in {write_incar(World(A(atoms)))} :
          /\ Commit(r)
          /\ last' = Obs("write_incar", World(A(atoms)), r, NoOutcome)
    /\ UNCHANGED <<atoms, nset>>

\* calc.read_incar()
ReadIncar ==
    /\ ncalls = 2
    /\ last.kind = "write_incar"
    /\ ncalls' = 3
    /\ \E r \in {read_incar(World(A(atoms)))} :
          /\ Commit(r)
          /\ last' = Obs("read_incar", World(A(atoms)), r, NoOutcome)
    /\ UNCHANGED <<atoms, nset>>

NextIncar ==
    \/ Initialize
    \/ WriteIncar
    \/ ReadIncar

SpecIncar == InitIncar /\ [][NextIncar]_vars

(***************************************************************************)
(* The per-atom quantities of a run: a structure of up to MaxReadAtoms     *)
(* atoms with any overrides is initialized, and the forces, the moments    *)
(* and the positions are read from what the external program reported.     *)
(* Row r (from 0) of block b (from 1) of a report holds the number         *)
(* 10 * b + r.                                                             *)
(***************************************************************************)
MaxReadAtoms == 3
MaxBlocks == 2
Blocks(nb, n) == [b \in 1..nb |-> [r \in 1..n |-> 10 * b + r - 1]]

InitRead == InitSort /\ Len(atoms.symbols) <= MaxReadAtoms

\* What is recorded of a reader: the report it read and what it returned.
ReadObs(kind, report, ret) ==
    [InitLast EXCEPT !.kind = kind, !.out = report, !.ret = L(ret)]
\* initialize has returned, and no reader has run yet.
CanRead == ncalls = 1 /\ last.kind = "initialize" /\ last.err = "none"

\* calc.read_forces(atoms, all)
ReadForces ==
    /\ CanRead
    /\ ncalls' = 2
    /\ \E nb \in 1..MaxBlocks, all \in BOOLEAN :
          /\ results' = [results EXCEPT !["forces"] =
                 L(read_forces(Blocks(nb, Len(atoms.symbols)), calc.resort.v, all))]
          /\ last' = ReadObs(IF all THEN "read_forces_all" ELSE "read_forces",
                             Blocks(nb, Len(atoms.symbols)),
                             read_forces(Blocks(nb, Len(atoms.symbols)),
                                         calc.resort.v, all))
    /\ UNCHANGED <<params, old_params, calc, atoms, environ, ppfiles, files,
                   sys_stderr, nlaunch, outrun, incar, nset>>

\* calc.read_magnetic_moments(atoms)
ReadMagneticMoments ==
    /\ CanRead
    /\ ncalls' = 2
    /\ \E nb \in 0..MaxBlocks :
          /\ results' = [results EXCEPT !["magnetic_moments"] =
                 L(read_magnetic_moments(Blocks(nb, Len(atoms.symbols)),
                                         Len(atoms.symbols), calc.resort.v))]
          /\ last' = ReadObs("read_magnetic_moments",
                             Blocks(nb, Len(atoms.symbols)),
                             read_magnetic_moments(Blocks(nb, Len(atoms.symbols)),
                                                   Len(atoms.symbols), calc.resort.v))
    /\ UNCHANGED <<params, old_params, calc, atoms, environ, ppfiles, files,
                   sys_stderr, nlaunch, outrun, incar, nset>>

\* calculate, from CONTCAR to atoms.positions
ReadContcar ==
    /\ CanRead
    /\ ncalls' = 2
    /\ last' = ReadObs("read_contcar", Blocks(1, Len(atoms.symbols)),
                       contcar_positions(Blocks(1, Len(atoms.symbols))[1],
                                         calc.resort.v))
    /\ UNCHANGED <<params, old_params, calc, results, atoms, environ, ppfiles,
                   files, sys_stderr, nlaunch, outrun, incar, nset>>

NextRead ==
    \/ Initialize
    \/ ReadForces
    \/ ReadMagneticMoments
    \/ ReadContcar

SpecRead == InitRead /\ [][NextRead]_vars

(***************************************************************************)
(* The report of a run: a calculator with or without a geometry            *)
(* optimization reads the convergence and the number of iterations from    *)
(* the lines of OUTCAR.  EDIFF is 10^-4; the first number of an            *)
(* energy-change line is below, at or above it, and the second is written  *)
(* with and without its exponent marker.                                   *)
(***************************************************************************)
MaxIterations == 3
ReportKwargs ==
    {<<>>,
     << <<"ibrion", I(2)>>, <<"nsw", I(5)>> >>,
     << <<"ibrion", I(1)>>, <<"nsw", I(5)>> >>,
     << <<"ibrion", I(3)>> >>,
     << <<"ibrion", I(2)>>, <<"nsw", I(0)>> >>,
     << <<"ibrion", I(0)>>, <<"nsw", I(5)>> >>}
EdiffLine == Line("EDIFF", 10000, 0, <<>>)
ChangeTexts ==
    {<<" ", "0", ".", "2", "-", "1", "1", "1">>,
     <<"-", "0", ".", "2", "-", "1", "1", "1">>,
     <<" ", "0", ".", "2", "-", "0", "3">>,
     <<" ", "0", ".", "2", "+", "1", "1", "1">>,
     <<"-", "0", ".", "5", "E", "-", "0", "5">>,
     <<" ", "0", ".", "5", "e", "-", "0", "5">>,
     <<" ", "0", ".", "5", "E", "-", "0", "3">>,
     <<" ", "0", ".", "5", "E", "+", "0", "1">>}
ChangeLines ==
    {Line("energy-change", 0, a, b) : a \in {-5000, 10000, 20000}, b \in ChangeTexts}
MixingLine == Line("MIXING", 0, 0, <<>>)
\* A converged and an unconverged line, for the reports of two lines.
ChangePairs ==
    {Line("energy-change", 0, a, <<"-", "0", ".", "5", "E", "-", "0", "5">>) :
        a \in {-5000, 20000}}
ConvergenceReports ==
    {<<EdiffLine>>}
    \cup {<<EdiffLine>> \o changes \o marker :
             changes \in {<<c>> : c \in ChangeLines}
                         \cup {<<c, MixingLine>> : c \in ChangeLines}
                         \cup {<<c, d>> : c \in ChangePairs, d \in ChangePairs},
             marker \in {<<>>, <<Line("accuracy", 0, 0, <<>>)>>}}
\* The lines of k '- Iteration' lines of ionic step ionic.
IterationLines(ionic, k) == [n \in 1..k |-> Line("Iteration", n, ionic, <<>>)]
IterationReports ==
    {<<EdiffLine>>}
    \cup {<<EdiffLine>> \o IterationLines(1, k) : k \in 1..MaxIterations}
    \cup {<<EdiffLine>> \o IterationLines(1, k) \o IterationLines(2, m) :
             k \in 1..MaxIterations, m \in 1..MaxIterations}

InitReport ==
    /\ \E kwargs \in ReportKwargs : params = VaspInit(kwargs).params
    /\ old_params = [c \in SnapshotCategories |-> Unset]
    /\ calc = InitCalc
    /\ results = InitResults
    /\ atoms \in Structures
    /\ environ = [VASP_COMMAND |-> TRUE, VASP_SCRIPT |-> FALSE,
                  VASP_PP_PATH |-> L(<<"r1", "r2">>)]
    /\ ppfiles = Repository
    /\ files = {"OUTCAR"}
    /\ sys_stderr = "stderr"
    /\ nlaunch = 0
    /\ outrun = 0
    /\ incar = <<>>
    /\ nset = 0
    /\ ncalls = 0
    /\ last = InitLast

\* The texts read_convergence hands to float(), line by line.
Repaired(report) ==
    [i \in DOMAIN report |->
        IF report[i].t = "energy-change" THEN repair_exponent(report[i].b)
        ELSE <<>>]
\* What the report says of the convergence.
Convergence(report) ==
    [NoOutcome EXCEPT !.econv = ElectronicFrom(report, 1, -1, "absent"),
                      !.relaxed = read_relaxed(report)]

\* calc.read_convergence()
ReadConvergence ==
    /\ ncalls = 0
    /\ ncalls' = 1
    /\ \E report \in ConvergenceReports :
          IF Convergence(report).econv \in {"ValueError", "NameError"}
          THEN /\ calc' = calc
               /\ last' = [InitLast EXCEPT !.kind = "read_convergence",
                                           !.out = report,
                                           !.trace = Repaired(report),
                                           !.err = Convergence(report).econv]
          ELSE /\ calc' = calc
               /\ last' = [InitLast EXCEPT !.kind = "read_convergence",
                                           !.out = report,
                                           !.trace = Repaired(report),
                                           !.ret = read_convergence(World(None),
                                                       Convergence(report))]
    /\ UNCHANGED <<params, old_params, results, atoms, environ, ppfiles, files,
                   sys_stderr, nlaunch, outrun, incar, nset>>

\* calc.read_number_of_iterations()
ReadNumberOfIterations ==
    /\ ncalls = 0
    /\ ncalls' = 1
    /\ \E report \in IterationReports :
          last' = [InitLast EXCEPT !.kind = "read_number_of_iterations",
                                  !.out = report,
                                  !.ret = read_number_of_iterations(report)]
    /\ UNCHANGED <<params, old_params, calc, results, atoms, environ, ppfiles,
                   files, sys_stderr, nlaunch, outrun, incar, nset>>

NextReport ==
    \/ ReadConvergence
    \/ ReadNumberOfIterations

SpecReport == InitReport /\ [][NextReport]_vars

(***************************************************************************)
(* The charge density: an object of one or up to MaxFrames frames, with    *)
(* and without the spin difference, is written under a file name and the   *)
(* file is read back.                                                      *)
(***************************************************************************)
MaxFrames == 2
Shapes == {<<1, 1, 1>>, <<2, 1, 2>>, <<3, 2, 2>>}
Volumes == {1, 2}
FileNames == {"CHG", "CHGCAR", "density"}
\* An array of the shape with values that all differ, from base on.
Grid(shape, base) ==
    [shape |-> shape,
     data |-> [c \in (1..shape[1]) \X (1..shape[2]) \X (1..shape[3]) |->
                 base + c[1] + 10 * c[2] + 100 * c[3]]]
FrameChoices == {[shape |-> sh, volume |-> v, base |-> 0] : sh \in Shapes, v \in Volumes}
FrameLists ==
    {<<fr>> : fr \in FrameChoices \cup {[fr0 EXCEPT !.base = 123400] : fr0 \in FrameChoices}}
    \cup {frs \in [1..MaxFrames -> FrameChoices] : MaxFrames > 1}
Density(frs, spin, aug) ==
    [atoms |-> [ii \in DOMAIN frs |-> frs[ii].volume],
     chg |-> [ii \in DOMAIN frs |-> Grid(frs[ii].shape, frs[ii].base)],
     chgdiff |-> IF spin
                 THEN [ii \in DOMAIN frs |-> Grid(frs[ii].shape, frs[ii].base - 150)]
                 ELSE <<>>,
     aug |-> aug,
     augdiff |-> IF spin /\ aug # <<>> THEN <<Aug(2), NL>> ELSE <<>>,
     err |-> "none"]
Densities ==
    {Density(frs, spin, <<>>) : frs \in FrameLists, spin \in BOOLEAN}
    \cup {Density(frs, spin, <<Aug(1), NL>>) :
             frs \in {q \in FrameLists : Len(q) = 1 /\ q[1].base = 0},
             spin \in BOOLEAN}

InitDensity ==
    /\ params = VaspInit(<<>>).params
    /\ old_params = [c \in SnapshotCategories |-> Unset]
    /\ calc = InitCalc
    /\ results = InitResults
    /\ atoms \in {a \in Structures : a.pos = 0 /\ Len(a.symbols) = 2}
    /\ environ = [VASP_COMMAND |-> TRUE, VASP_SCRIPT |-> FALSE,
                  VASP_PP_PATH |-> L(<<"r1", "r2">>)]
    /\ ppfiles = Repository
    /\ files = {}
    /\ sys_stderr = "stderr"
    /\ nlaunch = 0
    /\ outrun = 0
    /\ incar = <<>>
    /\ nset = 0
    /\ ncalls = 0
    /\ \E den \in Densities : last = [InitLast EXCEPT !.kind = "density", !.arg = den]

\* density.write(filename): last.arg is the object, last.out the file
WriteDensity ==
    /\ ncalls = 0
    /\ ncalls' = 1
    /\ \E filename \in FileNames :
          /\ last' = [last EXCEPT !.kind = "density.write",
                                  !.kwargs = <<filename>>,
                                  !.out = DensityWrite(last.arg, filename)]
          /\ files' = files \cup {filename}
    /\ UNCHANGED <<params, old_params, calc, results, atoms, environ, ppfiles,
                   sys_stderr, nlaunch, outrun, incar, nset>>

\* VaspChargeDensity(filename): last.ret is the object read
ReadDensity ==
    /\ ncalls = 1
    /\ ncalls' = 2
    /\ last' = [last EXCEPT !.kind = "density.read",
                            !.ret = DensityRead(last.out),
                            !.err = DensityRead(last.out).err]
    /\ UNCHANGED <<params, old_params, calc, results, atoms, environ, ppfiles,
                   files, sys_stderr, nlaunch, outrun, incar, nset>>

NextDensity ==
    \/ WriteDensity
    \/ ReadDensity

SpecDensity == InitDensity /\ [][NextDensity]_vars

(***************************************************************************)
(* The choice of functional and pseudopotentials: a calculator is made     *)
(* with keywords of choice (a failed construction leaves the caller with   *)
(* the default calculator it had), set again, and asked for the energy.    *)
(***************************************************************************)
SetupStructures ==
    {[symbols |-> <<"O", "H", "H">>, magmoms |-> <<0, 0, 0>>, pos |-> 0,
      cell |-> TRUE]}
Repositories == {Repository, {}}

\* The keyword lists of the constructor.  None of them gives pp one of
\* the lower-case aliases initialize stores when it guesses pp.
ConstructKwargs ==
    {<< <<"xc", S(x)>> >> : x \in {"PW91", "pw91", "pbe", "lda", "pbesol"}}
    \cup {<< <<"pp", S(x)>> >> : x \in {"PBE", "LDA", "PW91"}}
    \cup {<< <<"gga", S(x)>> >> : x \in {"91", "PE", "PS"}}
    \cup {<< <<"kspacing", I(x)>> >> : x \in {-1, 0, 1}}
    \cup {<< <<"xc", None>>, <<"pp", S("PBE")>> >>,
          << <<"pp", S("PBE")>>, <<"xc", None>>, <<"encut", I(400)>> >>,
          << <<"setups", D(<<[k |-> I(0), v |-> "O_s"]>>)>> >>,
          << <<"setups", D(<<[k |-> I(0), v |-> "H_h"]>>)>> >>,
          << <<"setups", D(<<[k |-> S("H"), v |-> "_h"]>>)>> >>,
          << <<"setups", D(<<[k |-> S("O"), v |-> "_s"]>>)>> >>}

\* The keyword lists of set.
ReconfigureKwargs ==
    {<< <<"gga", S("PE")>> >>, << <<"gga", S("91")>> >>, << <<"gga", S("PS")>> >>,
     << <<"xc", None>> >>, << <<"xc", S("pbe")>> >>, << <<"kspacing", I(1)>> >>,
     << <<"kspacing", None>> >>}

InitSetup ==
    /\ params = VaspInit(<<>>).params
    /\ old_params = [c \in SnapshotCategories |-> Unset]
    /\ calc = InitCalc
    /\ results = InitResults
    /\ atoms \in SetupStructures
    /\ environ = [VASP_COMMAND |-> TRUE, VASP_SCRIPT |-> FALSE,
                  VASP_PP_PATH |-> L(<<"r1", "r2">>)]
    /\ ppfiles \in Repositories
    /\ files = {}
    /\ sys_stderr = "stderr"
    /\ nlaunch = 0
    /\ outrun = 0
    /\ incar = <<>>
    /\ nset = 0
    /\ ncalls = 0
    /\ last = InitLast

\* calc = Vasp(**kwargs)
Construct ==
    /\ ncalls = 0
    /\ ncalls' = 1
    /\ \E kwargs \in ConstructKwargs :
          /\ params' = IF VaspInit(kwargs).err = "none"
                       THEN VaspInit(kwargs).params ELSE params
          /\ last' = [InitLast EXCEPT !.kind = "init", !.kwargs = kwargs,
                                      !.err = VaspInit(kwargs).err]
    /\ UNCHANGED <<old_params, calc, results, atoms, environ, ppfiles, files,
                   sys_stderr, nlaunch, outrun, incar, nset>>

\* calc.set(**kwargs)
Reconfigure ==
    /\ ncalls < MaxCalls
    /\ ncalls' = ncalls + 1
    /\ \E kwargs \in ReconfigureKwargs :
          /\ params' = set(params, kwargs).params
          /\ last' = [InitLast EXCEPT !.kind = "set", !.kwargs = kwargs,
                                      !.err = set(params, kwargs).err]
    /\ UNCHANGED <<old_params, calc, results, atoms, environ, ppfiles, files,
                   sys_stderr, nlaunch, outrun, incar, nset>>

NextSetup ==
    \/ Construct
    \/ Reconfigure
    \/ GetPotentialEnergy

SpecSetup == InitSetup /\ [][NextSetup]_vars

(***************************************************************************)
(* The change gate, the accessors and the launch of the external program.  *)
(***************************************************************************)
\* calculation_required(atoms, ['energy']) for the caller's structure now
Stale == calculation_required(World(A(atoms)), A(atoms), {"energy"})
\* calculation_required(a, ['energy']) for every structure a
AllStale ==
    \A a \in Structures : calculation_required(World(A(a)), A(a), {"energy"})
Range(q) == {q[i] : i \in DOMAIN q}

\* calculation_required(atoms, ['energy']) for the structure the last call
\* was given, as the call left it
StaleForLast == calculation_required(World(last.arg), last.arg, {"energy"})

C5_Original ==
    [][(/\ nset' = nset + 1
        /\ last'.err = "none"
        /\ Len(last'.kwargs) = 1
        /\ params' # params
        /\ ~Stale) => Stale']_vars

\* C6 as stated: an accessor that returns a result has run the write,
\* invoke, parse cycle if the state was stale, and has launched nothing if
\* it was not.
C6_Original ==
    (last.kind = "get" /\ last.err = "none" /\ last.ret # None) =>
        IF last.stale THEN last.launched = 1 /\ last.parsed
        ELSE last.launched = 0

\* C7 as stated: a call of set with an unregistered name raises the
\* unknown-parameter error and leaves every parameter as it was.
C7_Original ==
    [][(/\ nset' = nset + 1
        /\ \E i \in DOMAIN last'.kwargs : ~IsRegistered(last'.kwargs[i][1]))
       => (last'.err = "TypeError" /\ params' = params)]_vars

\* C8 as stated: in a stale state no accessor, get_property with
\* allow_calculation=False included, returns a value parsed from an
\* earlier run.
C8_Original ==
    (/\ last.kind \in {"get", "saved"}
     /\ last.stale
     /\ last.err = "none"
     /\ last.ret.t = "run")
    => (last.launched = 1 /\ last.ret = R(nlaunch))

\* The last call came to run: it wrote the sort file.
ReachedRun == <<"write", "ase-sort.dat">> \in Range(last.trace)
ConfigError ==
    /\ last.err = "RuntimeError"
    /\ last.errmsg = "Please set either VASP_COMMAND or VASP_SCRIPT"

C10_NonZeroExit ==
    [][/\ (nlaunch' = nlaunch + 1 /\ last'.out.exitcode # 0)
          => /\ last'.err = "RuntimeError"
             /\ last'.errmsg = "Vasp exited with exit code"
             /\ last'.errarg = I(last'.out.exitcode)
             /\ last'.launched = 1
             /\ ~last'.parsed
             /\ \A i \in DOMAIN last'.trace : last'.trace[i][1] # "read"
             /\ old_params' = old_params
             /\ results' = results
             /\ calc'.atoms = calc.atoms
             /\ calc'.positions = calc.positions
             /\ outrun' = outrun
             /\ calc'.converged = None
             /\ AllStale'
       /\ (nlaunch > 0 /\ calc.converged = None /\ ~last'.parsed)
          => (calc'.converged = None /\ AllStale')]_vars

\* the external program exits with 2 after a run that was parsed
C10_Witness ==
    /\ last.out.exitcode = 2
    /\ last.launched = 1
    /\ nlaunch = 2
    /\ outrun = 1
    /\ old_params["float_params"] # Unset

(***************************************************************************)
(* The ordering initialize leaves.                                         *)
(***************************************************************************)
Initialized == last.kind = "initialize" /\ calc.sort # Unset
NAtoms == Len(atoms.symbols)
\* The species at position i of the sorted order.
SortedSymbol(i) == atoms.symbols[calc.sort.v[i] + 1]
\* The atom indices the setups dictionary overrides, in its iteration order.
Overrides ==
    LET setups == params.input_params.setups
    IN  IF setups.t = "dict"
        THEN LET es == SelectSeq(setups.v, LAMBDA e : IsIntKey(e.k))
             IN  [i \in DOMAIN es |-> IntOf(es[i].k)]
        ELSE <<>>
Overridden == {Overrides[i] : i \in DOMAIN Overrides}
\* The first atom of a species in the structure, and the first that is not
\* overridden.
FirstOf(symbol) ==
    CHOOSE m \in 0..(NAtoms - 1) :
        /\ atoms.symbols[m + 1] = symbol
        /\ \A k \in 0..(m - 1) : atoms.symbols[k + 1] # symbol
FirstFreeOf(symbol) ==
    CHOOSE m \in (0..(NAtoms - 1)) \ Overridden :
        /\ atoms.symbols[m + 1] = symbol
        /\ \A k \in (0..(m - 1)) \ Overridden : atoms.symbols[k + 1] # symbol
\* The positions from..NAtoms of the sorted order hold every species in one
\* run.
OneRunEach(from) ==
    \A i, k \in from..NAtoms :
        i < k /\ SortedSymbol(i) = SortedSymbol(k) =>
            \A j \in i..k : SortedSymbol(j) = SortedSymbol(i)

C2_Original == Initialized => OneRunEach(1)

\* C2: after initialize the overridden atoms stand first, one position
\* each whatever their species, and behind them every species occupies
\* exactly one run of positions.
C2_RunsBehindOverrides ==
    Initialized =>
        /\ {calc.sort.v[i] : i \in 1..Len(Overrides)} = Overridden
        /\ OneRunEach(Len(Overrides) + 1)

\* an override has split a species into two runs
C2_Witness ==
    /\ Initialized
    /\ Overrides # <<>>
    /\ ~OneRunEach(1)

\* C3 as stated: the overridden atoms come first in ascending index
\* order, then the species in the order of their first atom in the
\* structure, each species in ascending index order.
C3_Original ==
    Initialized =>
        /\ \A i, j \in 1..Len(Overrides) :
              i < j => calc.sort.v[i] < calc.sort.v[j]
        /\ \A i, j \in (Len(Overrides) + 1)..NAtoms :
              i < j =>
                  IF SortedSymbol(i) = SortedSymbol(j)
                  THEN calc.sort.v[i] < calc.sort.v[j]
                  ELSE FirstOf(SortedSymbol(i)) < FirstOf(SortedSymbol(j))

\* C3: the overridden atoms come first in the iteration order of the
\* setups dictionary, then the species in the order of their first atom
\* that is not overridden, each species in ascending index order.
C3_OrderOfSort ==
    Initialized =>
        /\ \A i \in 1..Len(Overrides) : calc.sort.v[i] = Overrides[i]
        /\ \A i \in (Len(Overrides) + 1)..NAtoms :
              calc.sort.v[i] \notin Overridden
        /\ \A i, j \in (Len(Overrides) + 1)..NAtoms :
              i < j =>
                  IF SortedSymbol(i) = SortedSymbol(j)
                  THEN calc.sort.v[i] < calc.sort.v[j]
                  ELSE FirstFreeOf(SortedSymbol(i)) < FirstFreeOf(SortedSymbol(j))

\* two overrides in descending order, and a species whose first atom is
\* overridden ordered behind another
C3_Witness ==
    /\ Initialized
    /\ Len(Overrides) >= 2
    /\ calc.sort.v[1] > calc.sort.v[2]
    /\ \E i, j \in (Len(Overrides) + 1)..NAtoms :
          /\ i < j
          /\ FirstOf(SortedSymbol(j)) < FirstOf(SortedSymbol(i))

(***************************************************************************)
(* The control file.                                                       *)
(***************************************************************************)
\* The categories write_incar writes.
TypedCategories ==
    {"float_params", "exp_params", "string_params", "int_params",
     "bool_params", "list_params", "special_params", "dict_params"}
\* INCAR was written by the last call.
WroteIncar == last.kind = "write_incar" /\ last.err = "none"
\* The lines of INCAR that assign to name.
LinesFor(name) == {i \in DOMAIN incar : incar[i].name = name}

\* C11 as stated: INCAR has exactly one line for every key that is set and
\* none for a key that is not set.  The keys write_incar derives from the
\* structure or from ldau_luj (MAGMOM, ISPIN, LDAUL, LDAUU, LDAUJ) are left
\* out of the second half, as are the keys an elastic band (ichain > 0)
\* fixes (IBRION, POTIM, IOPT), and ldau_luj, which is no keyword, is left
\* out of the first.
C11_Original ==
    WroteIncar =>
        \A cat \in TypedCategories : \A key \in KeysOf(cat) :
            IF params[cat][key] # None
            THEN key = "ldau_luj" \/ Cardinality(LinesFor(Upper(key))) = 1
            ELSE \/ key \in {"magmom", "ispin", "ldaul", "ldauu", "ldauj"}
                 \/ /\ key \in {"ibrion", "potim", "iopt"}
                    /\ params.int_params["ichain"] # None
                    /\ params.int_params["ichain"].v > 0
                 \/ LinesFor(Upper(key)) = {}

\* The moments the MAGMOM line is written from: the magmom list of the
\* caller, or the initial moments of the structure.
HasMagmomLine == LinesFor("MAGMOM") # {}
MagmomSource ==
    IF params.list_params["magmom"] # None
    THEN params.list_params["magmom"].v
    ELSE atoms.magmoms
\* The list the MAGMOM line encodes.
MagmomEncoded ==
    IF params.list_params["magmom"] # None
    THEN params.list_params["magmom"].v
    ELSE [k \in DOMAIN calc.sort.v |-> atoms.magmoms[calc.sort.v[k] + 1]]
MagmomWords == incar[CHOOSE i \in LinesFor("MAGMOM") : TRUE].vals
\* The characters of a word in front of and behind its '*'.
StarOf(word) == CHOOSE i \in DOMAIN word : word[i] = "*"
CountOf(word) == ParseNat(SubSeq(word, 1, StarOf(word) - 1), 0)
ValueOf(word) == SubSeq(word, StarOf(word) + 1, Len(word))
\* The number of maximal runs of equal neighbours of a list.
NRuns(val) == 1 + Cardinality({n \in 2..Len(val) : val[n] # val[n - 1]})
RECURSIVE SumCounts(_)
SumCounts(words) ==
    IF words = <<>> THEN 0 ELSE CountOf(Head(words)) + SumCounts(Tail(words))

\* C12: the MAGMOM line has one word '<count>*<value>' for each maximal run
\* of equal neighbours of the list it encodes, the value with 4 decimals,
\* the counts summing to the length of the list, and read_incar decodes the
\* line to that list.
C12_RunLengthRoundTrip ==
    [][/\ (last'.kind = "write_incar" /\ last'.err = "none"
           /\ LinesFor("MAGMOM")' # {})
          => /\ Cardinality(LinesFor("MAGMOM")') = 1
             /\ Len(MagmomWords') = NRuns(MagmomEncoded')
             /\ SumCounts(MagmomWords') = Len(MagmomEncoded')
             /\ \A i \in DOMAIN MagmomWords' :
                   /\ Cardinality({j \in DOMAIN MagmomWords'[i] :
                                      MagmomWords'[i][j] = "*"}) = 1
                   /\ CountOf(MagmomWords'[i]) >= 1
                   /\ Len(ValueOf(MagmomWords'[i]))
                          = DotOf(ValueOf(MagmomWords'[i])) + 4
       /\ (last'.kind = "read_incar" /\ HasMagmomLine)
          => /\ last'.err = "none"
             /\ params'.list_params["magmom"] = L(MagmomEncoded)]_vars

\* read_incar has decoded a line of two words, the first a run of two
\* negative moments with decimals
C12_Witness ==
    /\ last.kind = "read_incar"
    /\ HasMagmomLine
    /\ Len(MagmomWords) = 2
    /\ MagmomWords[1] = <<"2", "*", "-", "1", ".", "2", "3", "4", "5">>
    /\ params.list_params["magmom"] = L(<<-12345, -12345, 10000>>)

\* C13 as stated: the k-th moment of the single MAGMOM line is the initial
\* moment of caller atom sort[k], for the moments of the structure and for
\* a magmom list with a moment for every atom.
C13_Original ==
    (WroteIncar /\ HasMagmomLine /\ Len(MagmomSource) = Len(atoms.symbols)) =>
        /\ Cardinality(LinesFor("MAGMOM")) = 1
        /\ DecodeMagmom(MagmomData(MagmomWords), 1, <<>>)
               = [k \in DOMAIN calc.sort.v |-> MagmomSource[calc.sort.v[k] + 1]]

(***************************************************************************)
(* The k-point file, the functional and the pseudopotentials.              *)
(***************************************************************************)
\* The last call came to write the input files: it wrote POTCAR.
ReachedWrite == <<"write", "POTCAR">> \in Range(last.trace)
WroteKpoints == <<"write", "KPOINTS">> \in Range(last.trace)

\* C14: a call that comes to write_kpoints writes KPOINTS when kspacing is
\* None, writes none and goes on to launch when kspacing is positive, and
\* with kspacing <= 0 raises the ValueError that names the value, writes
\* none and launches nothing.
C14_KpointsAndSpacing ==
    ReachedWrite =>
        IF params.float_params["kspacing"] = None
        THEN WroteKpoints /\ last.launched = 1
        ELSE IF params.float_params["kspacing"].v > 0
        THEN ~WroteKpoints /\ last.launched = 1
        ELSE /\ ~WroteKpoints
             /\ last.err = "ValueError"
             /\ last.errmsg = "KSPACING value is not allowable"
             /\ last.errarg = params.float_params["kspacing"]
             /\ last.launched = 0
             /\ <<"write", "ase-sort.dat">> \notin Range(last.trace)

\* kspacing = 0 has stopped a call after INCAR and POTCAR were written
C14_Witness ==
    /\ ReachedWrite
    /\ params.float_params["kspacing"] = I(0)
    /\ last.err = "ValueError"
    /\ "INCAR" \in files
    /\ "KPOINTS" \notin files

\* initialize was entered by the last call: an accessor found the state
\* stale and the structure has a cell.
Initializing == last.kind = "get" /\ last.stale
\* The folders of the pseudopotential files initialize has recorded.
PotcarFolders == {calc.ppp_list.v[i][2] : i \in DOMAIN calc.ppp_list.v}
\* No root of VASP_PP_PATH holds folder/dir/POTCAR or its compressed form.
Missing(folder, dir) ==
    \A i \in DOMAIN environ.VASP_PP_PATH.v : \A ext \in {"", ".Z"} :
        <<environ.VASP_PP_PATH.v[i], folder, dir, ext>> \notin ppfiles
\* The first root that holds folder/dir/POTCAR or its compressed form.
FirstRoot(folder, dir) ==
    environ.VASP_PP_PATH.v[
        CHOOSE i \in DOMAIN environ.VASP_PP_PATH.v :
            /\ \E ext \in {"", ".Z"} :
                  <<environ.VASP_PP_PATH.v[i], folder, dir, ext>> \in ppfiles
            /\ \A j \in 1..(i - 1) : \A ext \in {"", ".Z"} :
                  <<environ.VASP_PP_PATH.v[j], folder, dir, ext>> \notin ppfiles]
\* The directory of the block at position i of the sorted species blocks:
\* the setups entry of an overridden atom, the species and its suffix
\* otherwise; and the species of the block.
FreeSymbols == Symbols(atoms.symbols, Overrides)
BlockSpecies(i) ==
    IF i <= Len(Overrides) THEN atoms.symbols[Overrides[i] + 1]
    ELSE FreeSymbols[i - Len(Overrides)]
BlockDir(i) ==
    IF i <= Len(Overrides)
    THEN SetupsGet(params.input_params.setups, I(Overrides[i]))
    ELSE IF SetupsHas(params.input_params.setups, S(BlockSpecies(i)))
    THEN BlockSpecies(i) \o SetupsGet(params.input_params.setups, S(BlockSpecies(i)))
    ELSE BlockSpecies(i)
NBlocks == Len(Overrides) + Len(FreeSymbols)
TheFolder == PPFolder(params.input_params.pp.v)

\* C15 as stated: initialize records for each block the file under the
\* first root that holds it, and when no root holds the file of a block it
\* raises the error that names the species of a block whose file is
\* missing.
C15_Original ==
    (Initializing /\ params.input_params.pp # None) =>
        IF \E i \in 1..NBlocks : Missing(TheFolder, BlockDir(i))
        THEN /\ last.err = "RuntimeError"
             /\ last.errmsg = "No pseudopotential for"
             /\ \E i \in 1..NBlocks :
                   /\ Missing(TheFolder, BlockDir(i))
                   /\ last.errarg = S(BlockSpecies(i))
        ELSE /\ Len(calc.ppp_list.v) = NBlocks
             /\ \A i \in 1..NBlocks :
                   /\ calc.ppp_list.v[i][1] = FirstRoot(TheFolder, BlockDir(i))
                   /\ calc.ppp_list.v[i][2] = TheFolder
                   /\ calc.ppp_list.v[i][3] = BlockDir(i)

\* pp holds a lower-case alias: initialize has guessed it (no keyword list
\* of the constructor or of set gives pp such a value).
GuessedPP == params.input_params.pp \in {S("lda"), S("pw91"), S("pbe")}
\* initialize has searched folder and nowhere else.
SearchedIn(folder) ==
    /\ last.err # "NotImplementedError"
    /\ calc.ppp_list # Unset
    /\ PotcarFolders \subseteq {folder}

\* C16 as stated: on every run of a calculator that was not given pp, the
\* folder follows from gga as it is at that run: None gives potpaw, '91'
\* potpaw_GGA, 'PE' potpaw_PBE, and another value raises
\* NotImplementedError.
C16_Original ==
    (Initializing /\ (GuessedPP \/ params.input_params.pp = None)) =>
        CASE params.string_params["gga"] = None    -> SearchedIn("potpaw")
          [] params.string_params["gga"] = S("91") -> SearchedIn("potpaw_GGA")
          [] params.string_params["gga"] = S("PE") -> SearchedIn("potpaw_PBE")
          [] OTHER -> last.err = "NotImplementedError"

\* The recipe of xc is in effect: xc names it and pp and gga are what it
\* sets.
RecipeInEffect(xc) ==
    /\ params.input_params.xc # None
    /\ Lower(params.input_params.xc.v) = xc
    /\ \A i \in DOMAIN xc_defaults[xc] :
          params[CategoryOf(xc_defaults[xc][i][1])][xc_defaults[xc][i][1]]
              = xc_defaults[xc][i][2]
\* The files of every block were found in folder.
FoundIn(folder) ==
    /\ last.err # "NotImplementedError"
    /\ last.errmsg # "No pseudopotential for"
    /\ Len(calc.ppp_list.v) = NBlocks
    /\ PotcarFolders = {folder}

\* C17 as stated: with the recipe 'lda', 'pbe' or 'pw91' in effect and a
\* repository that holds every file in the three documented folders, the
\* files are found in potpaw, potpaw_PBE and potpaw_GGA respectively.
C17_Original ==
    (Initializing /\ ppfiles = Repository) =>
        /\ RecipeInEffect("lda") => FoundIn("potpaw")
        /\ RecipeInEffect("pbe") => FoundIn("potpaw_PBE")
        /\ RecipeInEffect("pw91") => FoundIn("potpaw_GGA")

\* The first call of a calculator constructed without keywords asked for
\* the energy, and what the same call leaves of a calculator constructed
\* with xc='PW91'.
FirstRunOfDefault == last.kind = "get" /\ ncalls = 1 /\ last.stale
RunOfPW91(a) ==
    initialize([World(A(a)) EXCEPT
                   !.params = VaspInit(<< <<"xc", S("PW91")>> >>).params,
                   !.calc = InitCalc], a)

\* C18 as stated: the first run of a calculator constructed without
\* keywords uses the parameters, writes the control file and finds the
\* pseudopotentials of a calculator constructed with xc='PW91'.
C18_Original ==
    FirstRunOfDefault =>
        /\ params = RunOfPW91(atoms).params
        /\ calc.ppp_list = RunOfPW91(atoms).calc.ppp_list
        /\ ReachedWrite =>
              incar = IncarLines(RunOfPW91(atoms).params,
                                 RunOfPW91(atoms).calc, atoms)

\* C19 as stated: the constructor and set accept xc=None: the call
\* raises nothing and the other keywords of the call are in effect.
C19_Original ==
    (/\ last.kind \in {"init", "set"}
     /\ \E i \in DOMAIN last.kwargs : last.kwargs[i] = <<"xc", None>>)
    => /\ last.err = "none"
       /\ \A i \in DOMAIN last.kwargs :
             params[CategoryOf(last.kwargs[i][1])][last.kwargs[i][1]]
                 = last.kwargs[i][2]

(***************************************************************************)
(* The per-atom results.                                                   *)
(***************************************************************************)
\* What the last block of the report says in row r (from 0).
Reported(r) == last.out[Len(last.out)][r + 1]
\* The value returned for caller atom i (from 0).
Returned(i) == last.ret.v[i + 1]

\* C20: the force, the relaxed position and the magnetic moment returned
\* for caller atom sort[r] is what row r of the report says, for every row
\* r; the forces are those of the last block, and with all=True every
\* block is returned in caller order.
C20_CallerOrder ==
    /\ last.kind \in {"read_forces", "read_contcar"}
          => /\ Len(last.ret.v) = NAtoms
             /\ \A r \in 0..(NAtoms - 1) :
                   Returned(calc.sort.v[r + 1]) = Reported(r)
    /\ last.kind = "read_magnetic_moments"
          => /\ Len(last.ret.v) = NAtoms
             /\ \A r \in 0..(NAtoms - 1) :
                   Returned(calc.sort.v[r + 1])
                       = IF last.out = <<>> THEN 0 ELSE Reported(r)
    /\ last.kind = "read_forces_all"
          => /\ Len(last.ret.v) = Len(last.out)
             /\ \A b \in DOMAIN last.out : \A r \in 0..(NAtoms - 1) :
                   last.ret.v[b][calc.sort.v[r + 1] + 1] = last.out[b][r + 1]

\* the forces of the second of two blocks, for three atoms whose sort is
\* not its own inverse
C20_Witness ==
    /\ last.kind = "read_forces"
    /\ Len(last.out) = 2
    /\ NAtoms = 3
    /\ calc.sort.v # calc.resort.v
    /\ Returned(calc.sort.v[1]) = 20

(***************************************************************************)
(* The report parsers.                                                     *)
(***************************************************************************)
ReadConverged == last.kind = "read_convergence" /\ last.err = "none"
\* The energy-change lines of the report read last, and the last of them.
ChangeRows == {i \in DOMAIN last.out : last.out[i].t = "energy-change"}
LastChange == last.out[CHOOSE i \in ChangeRows : \A j \in ChangeRows : j <= i]
\* The last energy-change line is within EDIFF, as read_convergence
\* compares it.
WithinEdiff ==
    /\ ChangeRows # {}
    /\ ListLess(Abs(LastChange.a), AbsFloat(repair_exponent(LastChange.b)), 10000)
GeometryOptimization ==
    /\ params.int_params["ibrion"] \in {I(1), I(2), I(3)}
    /\ params.int_params["nsw"] # I(0)
HasMarker == \E i \in DOMAIN last.out : last.out[i].t = "accuracy"

\* C21 (as stated): read_convergence returns True only when the last
\* energy-change line is within EDIFF and, with a geometry optimization
\* requested, the report also holds the required-accuracy marker.
C21_Original ==
    (ReadConverged /\ last.ret = B(TRUE))
        => (WithinEdiff /\ (GeometryOptimization => HasMarker))

\* Where the exponent of a text without marker starts: the place of its
\* last sign, behind a mantissa and in front of digits (0 if the text is
\* not of that form).
ExponentSign(b) ==
    IF /\ \A i \in DOMAIN b : b[i] \notin {"e", "E"}
       /\ \E k \in 2..Len(b) :
             /\ b[k] \in {"+", "-"}
             /\ IsDigits(SubSeq(b, k + 1, Len(b)))
             /\ IsMantissa(Unsigned(Strip(SubSeq(b, 1, k - 1))))
    THEN CHOOSE k \in 2..Len(b) :
             /\ b[k] \in {"+", "-"}
             /\ IsDigits(SubSeq(b, k + 1, Len(b)))
    ELSE 0
HasMarkerE(b) == \E i \in DOMAIN b : b[i] \in {"e", "E"}

\* C26 (as stated): a second number written as a mantissa, a sign and
\* exponent digits without a marker is handed to float() as the mantissa,
\* an e, the sign and the digits, which float() accepts; a number written
\* with a marker is handed over as it is.
C26_Original ==
    last.kind = "read_convergence" =>
        \A i \in ChangeRows :
            /\ ExponentSign(last.out[i].b) > 0 =>
                  /\ last.trace[i] =
                        SubSeq(last.out[i].b, 1, ExponentSign(last.out[i].b) - 1)
                        \o <<"e">>
                        \o SubSeq(last.out[i].b, ExponentSign(last.out[i].b),
                                  Len(last.out[i].b))
                  /\ IsFloat(last.trace[i])
                  /\ last.err # "ValueError"
            /\ HasMarkerE(last.out[i].b) => last.trace[i] = last.out[i].b

\* The numbers of the '- Iteration' lines of the report read last.
IterationNumbers ==
    {last.out[i].n : i \in {j \in DOMAIN last.out : last.out[j].t = "Iteration"}}

\* C27 (as stated): read_number_of_iterations returns the largest number
\* of the '- Iteration' lines of the report, and None for a report without
\* such a line.
C27_Original ==
    last.kind = "read_number_of_iterations" =>
        IF IterationNumbers = {} THEN last.ret = None
        ELSE /\ last.ret.t = "int"
             /\ last.ret.v \in IterationNumbers
             /\ \A n \in IterationNumbers : n <= last.ret.v

(***************************************************************************)
(* Properties the run did not produce.                                     *)
(***************************************************************************)
\* The call read its answer from results parsed from a report without a
\* stress line.
NoStressLine == results["stress"] = None /\ last.err # "RuntimeError"

\* C22 (as stated): a call for a property the external run did not produce
\* returns and does not raise; in particular no call raises the
\* not-implemented error when the report has no stress line.
C22_Original ==
    (last.kind = "get" /\ NoStressLine)
        => last.err # "PropertyNotImplementedError"

(***************************************************************************)
(* The charge density.                                                     *)
(***************************************************************************)
\* Two arrays have the same shape and values that agree to four digits.
SameArray(x, y) ==
    /\ x.shape = y.shape
    /\ \A c \in DOMAIN x.data :
          Abs(x.data[c] - y.data[c]) * 10000 <= Abs(x.data[c])

\* C23 (as stated): the object read from the file a density object was
\* written to has as many frames as the object, every frame with the grid
\* and the values of the frame written, and with an array chgdiff for
\* exactly the frames that had one.
C23_Original ==
    last.kind = "density.read" =>
        /\ last.err = "none"
        /\ Len(last.ret.chg) = Len(last.arg.chg)
        /\ \A ii \in DOMAIN last.ret.chg :
              SameArray(last.arg.chg[ii], last.ret.chg[ii])
        /\ Len(last.ret.chgdiff) = Len(last.arg.chgdiff)
        /\ \A ii \in DOMAIN last.ret.chgdiff :
              SameArray(last.arg.chgdiff[ii], last.ret.chgdiff[ii])

(***************************************************************************)
(* The parameters as a dictionary.                                         *)
(***************************************************************************)
\* C24 (as stated): for the calculator as constructed and at any time
\* later, todict holds every parameter that is not None, and a calculator
\* constructed with the keywords of todict has the same value for every
\* parameter of every category.
C24_Original ==
    /\ \A i \in DOMAIN Categories : \A k \in DOMAIN params[Categories[i]] :
          params[Categories[i]][k] # None
              => KwGet(todict(params), k) = params[Categories[i]][k]
    /\ VaspInit(todict(params)).err = "none"
    /\ VaspInit(todict(params)).params = params

(***************************************************************************)
(* The order of the steps of a run.                                        *)
(***************************************************************************)
Launches == {i \in DOMAIN last.trace : last.trace[i][1] = "launch"}
\* The files calculate writes for the parameters in effect.
InputFiles ==
    {"POSCAR", "INCAR", "POTCAR", "ase-sort.dat"}
    \cup (IF params.float_params["kspacing"] = None THEN {"KPOINTS"} ELSE {})
ExitedWithZero == last.out.exitcode = 0 /\ last.out.script = "ok"

\* C25: a call launches the external program at most once, and once when
\* it has written the sort file and a command or a script is there to
\* launch; every input file (KPOINTS unless kspacing is set) is written in
\* front of the launch and none behind it; CONTCAR is read and the report
\* is parsed only behind a launch that ended with exit code 0.
C25_WriteLaunchRead ==
    /\ Cardinality(Launches) <= 1
    /\ Cardinality(Launches) = last.launched
    /\ \A l \in Launches :
          /\ \A file \in InputFiles :
                \E j \in 1..(l - 1) : last.trace[j] = <<"write", file>>
          /\ \A j \in DOMAIN last.trace : last.trace[j][1] = "write" => j < l
    /\ (/\ <<"write", "ase-sort.dat">> \in Range(last.trace)
        /\ (environ.VASP_COMMAND \/ environ.VASP_SCRIPT))
           => Cardinality(Launches) = 1
    /\ \A r \in DOMAIN last.trace :
          last.trace[r] \in {<<"read", "CONTCAR">>, <<"read", "OUTCAR">>}
              => /\ ExitedWithZero
                 /\ \E l \in Launches : l < r
    /\ last.parsed => (ExitedWithZero /\ last.launched = 1)

\* a run that wrote all five files, exited with code 0 and was parsed
C25_Witness ==
    /\ last.launched = 1
    /\ last.parsed
    /\ <<"write", "KPOINTS">> \in Range(last.trace)
    /\ <<"read", "CONTCAR">> \in Range(last.trace)

(***************************************************************************)
(* The species counts.                                                     *)
(***************************************************************************)
\* symbol_count with every symbol repeated count times.
Expanded ==
    Flatten([i \in DOMAIN calc.symbol_count.v |->
                [j \in 1..calc.symbol_count.v[i][2] |-> calc.symbol_count.v[i][1]]])
RECURSIVE SumOfCounts(_)
SumOfCounts(sc) == IF sc = <<>> THEN 0 ELSE Head(sc)[2] + SumOfCounts(Tail(sc))

C29_Original ==
    (/\ last.launched = 1
     /\ params.float_params["kspacing"] # None
     /\ params.float_params["kspacing"].v > 0)
        => "KPOINTS" \notin files

(***************************************************************************)
(* The diagnostic stream.                                                  *)
(***************************************************************************)
\* C30 (as stated): every call, whether run returns or raises in it,
\* leaves sys.stderr the stream it was before the call.
C30_Original == [][sys_stderr' = sys_stderr]_vars
====
